---------------------------- MODULE Spec2Model ----------------------------
(***************************************************************************)
(* The ALT container codec of alt.c (Python package alt): the shared       *)
(* marker / size / alignment protocol (alt/base.py, alt/magic.py), the     *)
(* General, Parameters and Tokenizer section codecs (alt/general.py,       *)
(* alt/parameters.py, alt/tokenizer.py) and the programs that sequence     *)
(* them (the __main__ blocks of general.py and tokenizer.py, and           *)
(* alt/validate/spm.py).                                                   *)
(*                                                                         *)
(* The file is a sequence of bytes (0..255) and every struct.pack /        *)
(* struct.unpack / str.encode / bytes.decode is modelled on bytes, native  *)
(* (little-endian) order.  A Python str is a sequence of code points.      *)
(***************************************************************************)
EXTENDS Integers, Sequences, FiniteSets, TLC

VARIABLES
    prog,            \* which program drives the codecs
    pc,              \* index of the next step of Script(prog)
    file,            \* bytes of the file behind cli_params.alt_file
    pos,             \* alt_file.tell()
    err,             \* "none", or the exception that ended the program
    general,         \* fields of the GeneralModel instance
    hparams,         \* fields of the ParametersModel instance
    processor,       \* the SentencePieceProcessor of the TokenizerModel
    general_data,    \* value returned by GeneralModel.read_model
    hparams_data,    \* value returned by ParametersModel.read_model
    tokenizer_data,  \* value returned by TokenizerModel.read_model
    sections,        \* log: one entry per write_model / write_end_marker call
    reads,           \* log: one entry per read_model / read_end_marker call
    padding_at,      \* position given to the last calculate_padding, or -1
    padding_needed,  \* value returned by the last calculate_padding
    calls            \* log: one entry per call of a function called alone

vars == <<prog, pc, file, pos, err, general, hparams, processor, general_data,
          hparams_data, tokenizer_data, sections, reads, padding_at,
          padding_needed, calls>>

---------------------------------------------------------------------------
(* Bounds of the model *)

\* The free strings of the model info are all strings over Alphabet of at
\* most MaxStrLen characters
MaxStrLen == 2

\* SpecPadding draws the file position from 0..MaxPos
MaxPos == 130

---------------------------------------------------------------------------
(* alt/base.py: MagicType.  A marker is kept as the 8 bytes struct.pack("q") *)
(* gives it: the values exceed the 32-bit integers of the model checker.     *)

ALT == <<0, 116, 108, 97, 0, 0, 0, 0>>              \* 0x616C7400
GENERAL == <<190, 186, 254, 202, 0, 0, 0, 0>>       \* 0xCAFEBABE
PARAMETERS == <<239, 190, 173, 222, 0, 0, 0, 0>>    \* 0xDEADBEEF
TOKENIZER == <<254, 202, 221, 186, 0, 0, 0, 0>>     \* 0xBADDCAFE
TENSORS == <<237, 254, 206, 250, 0, 0, 0, 0>>       \* 0xFACEFEED
END == <<255, 255, 255, 15, 0, 0, 0, 0>>            \* 0x0FFFFFFF
ALIGNMENT == 32
VERSION == 2

\* is_valid if it compared the low 32 bits of the marker alone
is_valid_low_word(marker) ==
    SubSeq(marker, 1, 4) \in { SubSeq(m, 1, 4) :
                                  m \in {ALT, END, GENERAL, PARAMETERS, TENSORS, TOKENIZER} }
is_valid(marker) == marker \in {ALT, END, GENERAL, PARAMETERS, TENSORS, TOKENIZER}
is_alt(marker) == marker = ALT
\* is_general if it accepted every registered marker
is_general_any(marker) == marker \in {ALT, END, GENERAL, PARAMETERS, TENSORS, TOKENIZER}
is_general(marker) == marker = GENERAL
is_parameters(marker) == marker = PARAMETERS
is_tokenizer(marker) == marker = TOKENIZER
is_end(marker) == marker = END
\* is_version if it accepted every version
is_version_any(value) == value = value
is_version(value) == value = VERSION
is_aligned(value) == value = ALIGNMENT

\* BaseMagic.calculate_padding, as a function of alt_file.tell()
calculate_padding_no_wrap(position) == ALIGNMENT - (position % ALIGNMENT)
calculate_padding(position) == (ALIGNMENT - (position % ALIGNMENT)) % ALIGNMENT

---------------------------------------------------------------------------
(* Bytes: struct, str.encode("utf-8"), bytes.decode("utf-8"), file I/O *)

Zeros(n) == [k \in 1..n |-> 0]

\* struct.pack("i", v): 4 bytes, two's complement, little-endian
PackI(v) == << v % 256, (v \div 256) % 256, (v \div 65536) % 256,
               (v \div 16777216) % 256 >>

\* struct.unpack("i", bs)[0] for a buffer of exactly 4 bytes
UnpackI(bs) == bs[1] + 256 * bs[2] + 65536 * bs[3]
               + 16777216 * (IF bs[4] >= 128 THEN bs[4] - 256 ELSE bs[4])

\* struct.pack("q", size) of a section size (0 <= size < 2^31)
PackQ(v) == PackI(v) \o <<0, 0, 0, 0>>

\* struct.unpack("q", bs)[0] for a buffer of exactly 8 bytes.  The value is
\* only ever compared with a calculate_size(), which is in 0..2^31-1: every
\* value outside that range is returned as -1.
UnpackQ(bs) == IF SubSeq(bs, 5, 8) = <<0, 0, 0, 0>> /\ bs[4] < 128
               THEN UnpackI(SubSeq(bs, 1, 4)) ELSE -1

\* struct.pack("?", v)
PackBool(v) == IF v THEN <<1>> ELSE <<0>>

\* struct.pack("f", x) / struct.unpack("f", bs)[0].  A Python float is named
\* by its repr; the rows are <<double, its float32 bytes, the double that the
\* float32 reads back as>>.
Float32Table ==
    { << "0.5", <<0, 0, 0, 63>>, "0.5" >>,
      << "0.8", <<205, 204, 76, 63>>, "0.800000011920929" >>,
      << "-1.0", <<0, 0, 128, 191>>, "-1.0" >>,
      << "1e-05", <<172, 197, 39, 55>>, "9.999999747378752e-06" >>,
      << "10000.0", <<0, 64, 28, 70>>, "10000.0" >>,
      << "0.02", <<10, 215, 163, 60>>, "0.019999999552965164" >>,
      << "4096.0", <<0, 0, 128, 69>>, "4096.0" >>,
      << "0.0", <<0, 0, 0, 0>>, "0.0" >> }

PackF(x) == (CHOOSE r \in Float32Table : r[1] = x)[2]

UnpackF(bs) == IF \E r \in Float32Table : r[2] = bs
               THEN (CHOOSE r \in Float32Table : r[2] = bs)[3]
               ELSE "other"

\* UTF-8 bytes of one code point
EncodeChar(c) ==
    IF c < 128 THEN <<c>>
    ELSE IF c < 2048 THEN <<192 + (c \div 64), 128 + (c % 64)>>
    ELSE IF c < 65536
         THEN <<224 + (c \div 4096), 128 + ((c \div 64) % 64), 128 + (c % 64)>>
    ELSE <<240 + (c \div 262144), 128 + ((c \div 4096) % 64),
           128 + ((c \div 64) % 64), 128 + (c % 64)>>

\* str.encode("utf-8"): the bytes of the characters, in order (the string is
\* split in halves)
RECURSIVE encode(_)
encode(s) ==
    IF s = <<>> THEN <<>>
    ELSE IF Len(s) = 1 THEN EncodeChar(s[1])
    ELSE encode(SubSeq(s, 1, Len(s) \div 2))
             \o encode(SubSeq(s, Len(s) \div 2 + 1, Len(s)))

\* len(str): the number of characters
len(s) == Len(s)

\* A continuation byte of UTF-8 (10xxxxxx)
IsCont(b) == b >= 128 /\ b < 192

\* The number of bytes of the character that the lead byte b starts (0: no
\* character starts with b)
Width(b) == IF b < 128 THEN 1
            ELSE IF b >= 194 /\ b < 224 THEN 2
            ELSE IF b >= 224 /\ b < 240 THEN 3
            ELSE IF b >= 240 /\ b < 245 THEN 4
            ELSE 0

\* The bytes of bs from k on start with one well-formed character
WellFormedAt(bs, k) ==
    LET b == bs[k]
        w == Width(b)
    IN /\ w > 0
       /\ k + w - 1 <= Len(bs)
       /\ \A j \in (k + 1)..(k + w - 1) : IsCont(bs[j])
       /\ (b = 224 => bs[k + 1] >= 160)
       /\ (b = 237 => bs[k + 1] < 160)
       /\ (b = 240 => bs[k + 1] >= 144)
       /\ (b = 244 => bs[k + 1] < 144)
       /\ (k + w <= Len(bs) => ~IsCont(bs[k + w]))

\* The code point of the well-formed character that starts at k
DecodeChar(bs, k) ==
    LET b == bs[k]
        w == Width(b)
    IN IF w = 1 THEN b
       ELSE IF w = 2 THEN (b - 192) * 64 + (bs[k + 1] - 128)
       ELSE IF w = 3
            THEN (b - 224) * 4096 + (bs[k + 1] - 128) * 64 + (bs[k + 2] - 128)
       ELSE (b - 240) * 262144 + (bs[k + 1] - 128) * 4096
            + (bs[k + 2] - 128) * 64 + (bs[k + 3] - 128)

\* bytes.decode("utf-8"), strict: <<TRUE, str>>, or <<FALSE, <<>>>> for a
\* UnicodeDecodeError.  The characters start at the bytes that are not
\* continuation bytes; the bytes are well formed when the first byte starts
\* a character and every character is followed by the start of the next.
decode(bs) ==
    LET starts == { k \in 1..Len(bs) : ~IsCont(bs[k]) }
        ok == /\ (bs # <<>> => 1 \in starts)
              /\ \A k \in starts : WellFormedAt(bs, k)
        nth(i) == CHOOSE k \in starts : Cardinality({ j \in starts : j <= k }) = i
    IN IF ~ok THEN <<FALSE, <<>>>>
       ELSE <<TRUE, [i \in 1..Cardinality(starts) |-> DecodeChar(bs, nth(i))]>>

\* alt_file.read(n) at position p: up to n bytes, all the rest when n = -1
\* (a caller that can pass n < -1 checks for it: read raises ValueError)
Read(f, p, n) == IF n < 0 \/ n >= Len(f) - p THEN SubSeq(f, p + 1, Len(f))
                 ELSE SubSeq(f, p + 1, p + n)

\* alt_file.write(bs) at position p (p <= Len(f)): overwrite, then extend
Write(f, p, bs) == SubSeq(f, 1, p) \o bs \o SubSeq(f, p + Len(bs) + 1, Len(f))

---------------------------------------------------------------------------
(* alt/magic.py: MagicWriter and MagicReader.  A writer works on a stream  *)
(* [file, pos]; a reader returns [err, pos, ...] with err = "none" when it *)
(* returns normally and the name of the exception otherwise.  Writes that  *)
(* follow each other without a seek are one Put of the bytes in order.     *)

Put(st, bs) == [file |-> Write(st.file, st.pos, bs), pos |-> st.pos + Len(bs)]

\* MagicWriter.write_alignment
write_alignment(st) ==
    LET padding == calculate_padding(st.pos)
    IN IF padding > 0 THEN Put(st, Zeros(padding)) ELSE st

\* MagicWriter.write_section_marker: the two writes follow each other, so the
\* 16 bytes are put at once
write_section_marker(st, marker, size) == Put(st, marker \o PackQ(size))

\* write_end_marker if it padded the file after the marker
write_end_marker_padded(st) == write_alignment(Put(st, END))

\* MagicWriter.write_end_marker
write_end_marker(st) == Put(st, END)

\* MagicReader.read_alignment
read_alignment(f, p) ==
    LET needed == calculate_padding(p)
        padding == Read(f, p, needed)
    IN IF needed > 0 /\ padding # Zeros(needed)
       THEN [err |-> "ValueError: padding", pos |-> p + Len(padding)]
       ELSE [err |-> "none", pos |-> p + Len(padding)]

\* MagicReader.read_section_marker
read_section_marker(f, p) ==
    LET m == Read(f, p, 8)
        s == Read(f, p + 8, 8)
    IN IF Len(m) # 8
       THEN [err |-> "struct.error", pos |-> p + Len(m), marker |-> <<>>, size |-> -1]
       ELSE IF ~is_valid(m)
       THEN [err |-> "ValueError: invalid section marker", pos |-> p + 8,
             marker |-> m, size |-> -1]
       ELSE IF Len(s) # 8
       THEN [err |-> "struct.error", pos |-> p + 8 + Len(s), marker |-> m, size |-> -1]
       ELSE [err |-> "none", pos |-> p + 16, marker |-> m, size |-> UnpackQ(s)]

\* read_end_marker if it compared the bytes it got with as many bytes of END
read_end_marker_short(f, p) ==
    LET a == read_alignment(f, p)
        m == Read(f, a.pos, 8)
    IN IF a.err # "none" THEN a
       ELSE IF m # SubSeq(END, 1, Len(m))
       THEN [err |-> "ValueError: invalid end marker", pos |-> a.pos + Len(m)]
       ELSE [err |-> "none", pos |-> a.pos + Len(m)]

\* MagicReader.read_end_marker
read_end_marker(f, p) ==
    LET a == read_alignment(f, p)
        m == Read(f, a.pos, 8)
    IN IF a.err # "none" THEN a
       ELSE IF Len(m) # 8 THEN [err |-> "struct.error", pos |-> a.pos + Len(m)]
       ELSE IF ~is_end(m) THEN [err |-> "ValueError: invalid end marker", pos |-> a.pos + 8]
       ELSE [err |-> "none", pos |-> a.pos + 8]

\* A length-prefixed string as the codecs write it: the prefix they are
\* given, then the UTF-8 bytes
PutString(length, value) == PackI(length) \o encode(value)

\* The reading of one length-prefixed string:
\*   length = struct.unpack("i", alt_file.read(4))[0]
\*   value = alt_file.read(length).decode("utf-8")
ReadString(f, p) ==
    LET l == Read(f, p, 4)
        length == UnpackI(l)
        raw == Read(f, p + 4, length)
        d == decode(raw)
    IN IF Len(l) # 4
       THEN [err |-> "struct.error", pos |-> p + Len(l), value |-> <<>>, length |-> 0]
       ELSE IF length < -1
       THEN [err |-> "ValueError: read length", pos |-> p + 4, value |-> <<>>,
             length |-> length]
       ELSE IF ~d[1]
       THEN [err |-> "UnicodeDecodeError", pos |-> p + 4 + Len(raw), value |-> <<>>,
             length |-> length]
       ELSE [err |-> "none", pos |-> p + 4 + Len(raw), value |-> d[2], length |-> length]

---------------------------------------------------------------------------
(* alt/magic.py: MagicModel (the Start section) *)

MagicModel_calculate_size == 4 + 4

\* MagicModel.write_model: seek(0), header, version, alignment, padding
\* MagicModel.write_model without its seek(0): the file is written from its
\* end on, where the calls before have left the position
MagicModel_write_model_no_seek(f) ==
    LET s0 == [file |-> f, pos |-> Len(f)]
        s1 == write_section_marker(s0, ALT, MagicModel_calculate_size)
        s2 == Put(s1, PackI(VERSION) \o PackI(ALIGNMENT))
    IN [st |-> write_alignment(s2), err |-> "none", header_pos |-> Len(f),
        body_pos |-> s1.pos, body_end |-> s2.pos, size |-> MagicModel_calculate_size]

MagicModel_write_model(f) ==
    LET s0 == [file |-> f, pos |-> 0]
        s1 == write_section_marker(s0, ALT, MagicModel_calculate_size)
        s2 == Put(s1, PackI(VERSION) \o PackI(ALIGNMENT))
    IN [st |-> write_alignment(s2), err |-> "none", header_pos |-> 0,
        body_pos |-> s1.pos, body_end |-> s2.pos, size |-> MagicModel_calculate_size]

\* MagicModel.read_model: seek(0), then the checks in the order of the code
MagicModel_read_model(f) ==
    LET h == read_section_marker(f, 0)
        v == Read(f, h.pos, 4)
        a == Read(f, h.pos + 4, 4)
    IN IF h.err # "none" THEN [err |-> h.err, pos |-> h.pos]
       ELSE IF ~is_alt(h.marker) THEN [err |-> "ValueError: invalid magic value", pos |-> h.pos]
       ELSE IF Len(v) # 4 THEN [err |-> "struct.error", pos |-> h.pos + Len(v)]
       ELSE IF Len(a) # 4 THEN [err |-> "struct.error", pos |-> h.pos + 4 + Len(a)]
       ELSE IF ~is_version(UnpackI(v)) THEN [err |-> "ValueError: invalid version", pos |-> h.pos + 8]
       ELSE IF ~is_aligned(UnpackI(a)) THEN [err |-> "ValueError: invalid alignment", pos |-> h.pos + 8]
       ELSE read_alignment(f, h.pos + 8)

---------------------------------------------------------------------------
(* alt/general.py: GeneralModel *)

GeneralFields == <<"model_type", "base_model", "author", "created_at",
                   "last_modified", "license", "uuid">>

\* GeneralModel.__init__: the strings of the model info and their len()
GeneralModel(info) ==
    [model_type |-> info.model_type, model_type_len |-> len(info.model_type),
     base_model |-> info.base_model, base_model_len |-> len(info.base_model),
     author |-> info.author, author_len |-> len(info.author),
     created_at |-> info.created_at, created_at_len |-> len(info.created_at),
     last_modified |-> info.last_modified, last_modified_len |-> len(info.last_modified),
     license |-> info.license, license_len |-> len(info.license),
     uuid |-> info.uuid, uuid_len |-> len(info.uuid)]

\* GeneralModel.calculate_size
GeneralModel_calculate_size(g) ==
    (4 + g.author_len) + (4 + g.base_model_len) + (4 + g.model_type_len)
    + (4 + g.created_at_len) + (4 + g.last_modified_len) + (4 + g.license_len)
    + (4 + g.uuid_len)

\* GeneralModel.write_model
GeneralModel_write_model(st, g) ==
    LET s1 == write_section_marker(st, GENERAL, GeneralModel_calculate_size(g))
        f7 == Put(s1, PutString(g.model_type_len, g.model_type)
                      \o PutString(g.base_model_len, g.base_model)
                      \o PutString(g.author_len, g.author)
                      \o PutString(g.created_at_len, g.created_at)
                      \o PutString(g.last_modified_len, g.last_modified)
                      \o PutString(g.license_len, g.license)
                      \o PutString(g.uuid_len, g.uuid))
    IN [st |-> write_alignment(f7), err |-> "none", header_pos |-> st.pos,
        body_pos |-> s1.pos, body_end |-> f7.pos,
        size |-> GeneralModel_calculate_size(g)]

\* The loop of GeneralModel.read_model over the n remaining fields
RECURSIVE ReadStrings(_, _, _)
ReadStrings(f, p, n) ==
    IF n = 0 THEN [err |-> "none", pos |-> p, values |-> <<>>]
    ELSE LET r == ReadString(f, p)
             rest == ReadStrings(f, r.pos, n - 1)
         IN IF r.err # "none" THEN [err |-> r.err, pos |-> r.pos, values |-> <<>>]
            ELSE [err |-> rest.err, pos |-> rest.pos, values |-> <<r.value>> \o rest.values]

\* general_data before GeneralModel.read_model has returned
NoGeneralData == [model_type |-> <<>>, base_model |-> <<>>, author |-> <<>>,
                  created_at |-> <<>>, last_modified |-> <<>>, license |-> <<>>,
                  uuid |-> <<>>]

\* GeneralModel.read_model on the instance g
GeneralModel_read_model(f, p, g) ==
    LET h == read_section_marker(f, p)
        r == ReadStrings(f, h.pos, Len(GeneralFields))
        a == read_alignment(f, r.pos)
    IN IF h.err # "none" THEN [err |-> h.err, pos |-> h.pos, data |-> NoGeneralData]
       ELSE IF ~is_general(h.marker)
       THEN [err |-> "ValueError: invalid section marker", pos |-> h.pos, data |-> NoGeneralData]
       ELSE IF h.size # GeneralModel_calculate_size(g)
       THEN [err |-> "ValueError: section size mismatch", pos |-> h.pos, data |-> NoGeneralData]
       ELSE IF r.err # "none" THEN [err |-> r.err, pos |-> r.pos, data |-> NoGeneralData]
       ELSE IF a.err # "none" THEN [err |-> a.err, pos |-> a.pos, data |-> NoGeneralData]
       ELSE [err |-> "none", pos |-> a.pos,
             data |-> [model_type |-> r.values[1], base_model |-> r.values[2],
                       author |-> r.values[3], created_at |-> r.values[4],
                       last_modified |-> r.values[5], license |-> r.values[6],
                       uuid |-> r.values[7]]]

---------------------------------------------------------------------------
(* alt/parameters.py: ParametersModel.  A value of config.json is tagged   *)
(* with its Python type: t is "bool", "int", "float", "str", "none" (null) *)
(* or "absent" (no such key).                                              *)

BoolV(x) == [t |-> "bool", b |-> x, i |-> 0, f |-> "", s |-> <<>>]
IntV(x) == [t |-> "int", b |-> FALSE, i |-> x, f |-> "", s |-> <<>>]
FloatV(x) == [t |-> "float", b |-> FALSE, i |-> 0, f |-> x, s |-> <<>>]
StrV(x) == [t |-> "str", b |-> FALSE, i |-> 0, f |-> "", s |-> x]
NoneV == [t |-> "none", b |-> FALSE, i |-> 0, f |-> "", s |-> <<>>]
AbsentV == [t |-> "absent", b |-> FALSE, i |-> 0, f |-> "", s |-> <<>>]

\* dict.get(key, default)
get(config, key, default) == IF config[key].t = "absent" THEN default ELSE config[key]

\* ParametersModel.__init__ (hidden_act a str, hidden_size and
\* num_attention_heads integers, num_attention_heads > 0: otherwise the
\* constructor raises)
ParametersModel(config) ==
    LET hidden_act == get(config, "hidden_act", StrV(<<115, 105, 108, 117>>))
        hidden_size == get(config, "hidden_size", IntV(4096))
        num_attention_heads == get(config, "num_attention_heads", IntV(32))
    IN [hidden_act |-> hidden_act.s,
        hidden_act_len |-> len(hidden_act.s),
        tie_word_embeddings |-> get(config, "tie_word_embeddings", BoolV(FALSE)),
        hidden_size |-> hidden_size,
        intermediate_size |-> get(config, "intermediate_size", IntV(4 * hidden_size.i)),
        max_position_embeddings |-> get(config, "max_position_embeddings", IntV(32768)),
        num_attention_heads |-> num_attention_heads,
        num_hidden_layers |-> get(config, "num_hidden_layers", IntV(32)),
        num_key_value_heads |-> get(config, "num_key_value_heads", num_attention_heads),
        sliding_window |-> get(config, "sliding_window", IntV(4096)),
        rms_norm_eps |-> get(config, "rms_norm_eps", FloatV("1e-05")),
        rope_theta |-> get(config, "rope_theta", FloatV("10000.0")),
        initializer_range |-> get(config, "initializer_range", FloatV("0.02")),
        head_size |-> IntV(hidden_size.i \div num_attention_heads.i)]

\* ParametersModel.calculate_size
ParametersModel_calculate_size(h) ==
    (4 + h.hidden_act_len) + 1 + (4 * 7) + (4 * 3) + 4

\* The fields list of ParametersModel.write_model after the (len, str) tuple
ParametersWriteOrder ==
    <<"tie_word_embeddings", "hidden_size", "intermediate_size",
      "max_position_embeddings", "num_attention_heads", "num_hidden_layers",
      "num_key_value_heads", "sliding_window", "head_size", "rms_norm_eps",
      "rope_theta", "initializer_range">>

\* One turn of the loop of write_model: the bytes the isinstance chain
\* writes.  A value that is none of bool, int, float, tuple (None) falls
\* through and writes nothing.
PutValue(v) ==
    IF v.t = "bool" THEN PackBool(v.b)
    ELSE IF v.t = "int" THEN PackI(v.i)
    ELSE IF v.t = "float" THEN PackF(v.f)
    ELSE <<>>

\* The bytes the loop writes for the fields names[k], names[k + 1], ...
RECURSIVE PutValues(_, _, _)
PutValues(h, names, k) ==
    IF k > Len(names) THEN <<>>
    ELSE PutValue(h[names[k]]) \o PutValues(h, names, k + 1)

\* ParametersModel.write_model
ParametersModel_write_model(st, h) ==
    LET s1 == write_section_marker(st, PARAMETERS, ParametersModel_calculate_size(h))
        s3 == Put(s1, PutString(h.hidden_act_len, h.hidden_act)
                      \o PutValues(h, ParametersWriteOrder, 1))
    IN [st |-> write_alignment(s3), err |-> "none", header_pos |-> st.pos,
        body_pos |-> s1.pos, body_end |-> s3.pos,
        size |-> ParametersModel_calculate_size(h)]

\* The lists of ParametersModel.read_model
bool_t == <<"tie_word_embeddings">>
int_t == <<"hidden_size", "intermediate_size", "max_position_embeddings",
           "num_attention_heads", "num_hidden_layers", "num_key_value_heads",
           "sliding_window", "head_size">>
float_t == <<"rms_norm_eps", "rope_theta", "initializer_range">>

InSeq(x, sq) == \E k \in 1..Len(sq) : sq[k] = x

\* struct.unpack("?", alt_file.read(4)): the format wants a buffer of 1 byte
ReadBool(f, p) ==
    LET raw == Read(f, p, 4)
    IN IF Len(raw) # 1 THEN [err |-> "struct.error", pos |-> p + Len(raw), value |-> NoneV]
       ELSE [err |-> "none", pos |-> p + 1, value |-> BoolV(raw[1] # 0)]

\* struct.unpack("i", alt_file.read(4))
ReadInt(f, p) ==
    LET raw == Read(f, p, 4)
    IN IF Len(raw) # 4 THEN [err |-> "struct.error", pos |-> p + Len(raw), value |-> NoneV]
       ELSE [err |-> "none", pos |-> p + 4, value |-> IntV(UnpackI(raw))]

\* struct.unpack("f", alt_file.read(4))
ReadFloat(f, p) ==
    LET raw == Read(f, p, 4)
    IN IF Len(raw) # 4 THEN [err |-> "struct.error", pos |-> p + Len(raw), value |-> NoneV]
       ELSE [err |-> "none", pos |-> p + 4, value |-> FloatV(UnpackF(raw))]

\* One turn of the loop of read_model for a field after hidden_act
ReadValue(f, p, field) ==
    IF InSeq(field, bool_t) THEN ReadBool(f, p)
    ELSE IF InSeq(field, int_t) THEN ReadInt(f, p)
    ELSE ReadFloat(f, p)

\* The loop of read_model over bool_t + int_t + float_t: the values by name
RECURSIVE ReadValues(_, _, _, _, _)
ReadValues(f, p, names, k, acc) ==
    IF k > Len(names) THEN [err |-> "none", pos |-> p, values |-> acc]
    ELSE LET r == ReadValue(f, p, names[k])
         IN IF r.err # "none" THEN [err |-> r.err, pos |-> r.pos, values |-> acc]
            ELSE ReadValues(f, r.pos, names, k + 1,
                            [acc EXCEPT ![names[k]] = r.value])

\* hparams_data before ParametersModel.read_model has returned
NoParametersData ==
    [n \in {"hidden_act", "tie_word_embeddings", "hidden_size", "intermediate_size",
            "max_position_embeddings", "num_attention_heads", "num_hidden_layers",
            "num_key_value_heads", "sliding_window", "head_size", "rms_norm_eps",
            "rope_theta", "initializer_range"} |-> NoneV]

\* ParametersModel.read_model on the instance h
ParametersModel_read_model(f, p, h) ==
    LET hd == read_section_marker(f, p)
        s == ReadString(f, hd.pos)
        r == ReadValues(f, s.pos, bool_t \o int_t \o float_t, 1,
                        [NoParametersData EXCEPT !["hidden_act"] = StrV(s.value)])
        a == read_alignment(f, r.pos)
    IN IF hd.err # "none" THEN [err |-> hd.err, pos |-> hd.pos, data |-> NoParametersData]
       ELSE IF ~is_parameters(hd.marker)
       THEN [err |-> "ValueError: invalid section marker", pos |-> hd.pos,
             data |-> NoParametersData]
       ELSE IF hd.size # ParametersModel_calculate_size(h)
       THEN [err |-> "ValueError: section size mismatch", pos |-> hd.pos,
             data |-> NoParametersData]
       ELSE IF s.err # "none" THEN [err |-> s.err, pos |-> s.pos, data |-> NoParametersData]
       ELSE IF r.err # "none" THEN [err |-> r.err, pos |-> r.pos, data |-> NoParametersData]
       ELSE IF a.err # "none" THEN [err |-> a.err, pos |-> a.pos, data |-> NoParametersData]
       ELSE [err |-> "none", pos |-> a.pos, data |-> r.values]

---------------------------------------------------------------------------
(* alt/base.py: TokenType; alt/tokenizer.py: TokenizerModel.  The          *)
(* processor is [vocab, bos_id, eos_id, pad_id, unk_id], vocab a sequence  *)
(* of [piece, score, is_byte, is_control, is_unknown, is_unused]; the      *)
(* piece of id k is vocab[k + 1].                                          *)

\* The integer class attributes of alt.base.TokenType: its class body
\* defines __init__ and get_type and no constant
TokenType == [name \in {} |-> 0]

\* TokenType.<name> in get_type: the attribute, or an AttributeError
ClassAttribute(class, name) ==
    IF name \in DOMAIN class THEN [err |-> "none", value |-> class[name]]
    ELSE [err |-> "AttributeError", value |-> -1]

\* TokenType.get_type (alt/base.py)
get_type(proc, index, token) ==
    LET e == proc.vocab[index + 1]
    IN IF e.is_byte THEN ClassAttribute(TokenType, "BYTE")
       ELSE IF e.is_control THEN ClassAttribute(TokenType, "CONTROL")
       ELSE IF e.is_unknown THEN ClassAttribute(TokenType, "UNKNOWN")
       ELSE IF e.is_unused THEN ClassAttribute(TokenType, "UNUSED")
       ELSE IF token = <<60, 115, 62>> THEN ClassAttribute(TokenType, "BOS")
       ELSE IF token = <<60, 47, 115, 62>> THEN ClassAttribute(TokenType, "EOS")
       ELSE IF token = <<60, 112, 97, 100, 62>> THEN ClassAttribute(TokenType, "PAD")
       ELSE ClassAttribute(TokenType, "NORMAL")

\* processor.vocab_size(), processor.id_to_piece(index)
vocab_size(proc) == Len(proc.vocab)
id_to_piece(proc, index) == proc.vocab[index + 1].piece

\* TokenizerModel.calculate_size: the loop from index to vocab_size - 1
RECURSIVE TokensSize(_, _)
TokensSize(proc, index) ==
    IF index >= vocab_size(proc) THEN 0
    ELSE 4 + Len(encode(id_to_piece(proc, index))) + 4 + 4 + TokensSize(proc, index + 1)

TokenizerModel_calculate_size(proc) == 4 * 5 + TokensSize(proc, 0)

\* The token loop of TokenizerModel.write_model from index on: get_type is
\* evaluated before the first write of the turn
RECURSIVE PutTokens(_, _, _)
PutTokens(st, proc, index) ==
    IF index >= vocab_size(proc) THEN [st |-> st, err |-> "none"]
    ELSE LET token == id_to_piece(proc, index)
             token_bytes == encode(token)
             token_len == Len(token_bytes)
             token_score == proc.vocab[index + 1].score
             token_type == get_type(proc, index, token)
             s3 == Put(st, PackI(token_len) \o token_bytes \o PackF(token_score)
                           \o PackI(token_type.value))
         IN IF token_type.err # "none" THEN [st |-> st, err |-> token_type.err]
            ELSE PutTokens(s3, proc, index + 1)

\* TokenizerModel.write_model
TokenizerModel_write_model(st, proc) ==
    LET s1 == write_section_marker(st, TOKENIZER, TokenizerModel_calculate_size(proc))
        s3 == Put(s1, PackI(vocab_size(proc)) \o PackI(proc.bos_id)
                      \o PackI(proc.eos_id) \o PackI(proc.pad_id)
                      \o PackI(proc.unk_id))
        t == PutTokens(s3, proc, 0)
    IN [st |-> IF t.err = "none" THEN write_alignment(t.st) ELSE t.st,
        err |-> t.err, header_pos |-> st.pos, body_pos |-> s1.pos,
        body_end |-> t.st.pos, size |-> TokenizerModel_calculate_size(proc)]

\* The token loop of TokenizerModel.read_model, n turns left
RECURSIVE ReadTokens(_, _, _)
ReadTokens(f, p, n) ==
    IF n <= 0 THEN [err |-> "none", pos |-> p, vocab |-> <<>>]
    ELSE LET t == ReadString(f, p)
             sc == ReadFloat(f, t.pos)
             ty == ReadInt(f, sc.pos)
             rest == ReadTokens(f, ty.pos, n - 1)
         IN IF t.err # "none" THEN [err |-> t.err, pos |-> t.pos, vocab |-> <<>>]
            ELSE IF sc.err # "none" THEN [err |-> sc.err, pos |-> sc.pos, vocab |-> <<>>]
            ELSE IF ty.err # "none" THEN [err |-> ty.err, pos |-> ty.pos, vocab |-> <<>>]
            ELSE [err |-> rest.err, pos |-> rest.pos,
                  vocab |-> << [len |-> t.length, token |-> t.value,
                                score |-> sc.value.f, type |-> ty.value.i] >>
                            \o rest.vocab]

\* tokenizer_data before TokenizerModel.read_model has returned
NoTokenizerData == [vocab_size |-> -1, bos_id |-> 0, eos_id |-> 0, pad_id |-> 0,
                    unk_id |-> 0, vocab |-> <<>>]

\* TokenizerModel.read_model on the instance whose processor is proc
TokenizerModel_read_model(f, p, proc) ==
    LET a == read_alignment(f, p)
        hd == read_section_marker(f, a.pos)
        vs == ReadInt(f, hd.pos)
        ids == Read(f, vs.pos, 16)
        r == ReadTokens(f, vs.pos + 16, vs.value.i)
    IN IF a.err # "none" THEN [err |-> a.err, pos |-> a.pos, data |-> NoTokenizerData]
       ELSE IF hd.err # "none" THEN [err |-> hd.err, pos |-> hd.pos, data |-> NoTokenizerData]
       ELSE IF ~is_tokenizer(hd.marker)
       THEN [err |-> "ValueError: invalid section marker", pos |-> hd.pos,
             data |-> NoTokenizerData]
       ELSE IF hd.size # TokenizerModel_calculate_size(proc)
       THEN [err |-> "ValueError: section size mismatch", pos |-> hd.pos,
             data |-> NoTokenizerData]
       ELSE IF vs.err # "none" THEN [err |-> vs.err, pos |-> vs.pos, data |-> NoTokenizerData]
       ELSE IF Len(ids) # 16
       THEN [err |-> "struct.error", pos |-> vs.pos + Len(ids), data |-> NoTokenizerData]
       ELSE IF r.err # "none" THEN [err |-> r.err, pos |-> r.pos, data |-> NoTokenizerData]
       ELSE [err |-> "none", pos |-> r.pos,
             data |-> [vocab_size |-> vs.value.i,
                       bos_id |-> UnpackI(SubSeq(ids, 1, 4)),
                       eos_id |-> UnpackI(SubSeq(ids, 5, 8)),
                       pad_id |-> UnpackI(SubSeq(ids, 9, 12)),
                       unk_id |-> UnpackI(SubSeq(ids, 13, 16)),
                       vocab |-> r.vocab]]

---------------------------------------------------------------------------
(* The inputs: what ModelLoader hands to the constructors *)

\* "a" and "é" (U+00E9, two bytes in UTF-8)
Alphabet == {97, 233}

Strings(n) == UNION { [1..k -> Alphabet] : k \in 0..n }

\* datetime.isoformat() and str(uuid4()) give ASCII strings of fixed shape
CreatedAt == <<50, 48, 50, 51, 45, 48, 57, 45, 50, 48, 84, 49, 51, 58, 48, 51,
               58, 53, 48, 43, 48, 48, 58, 48, 48>>
LastModified == <<50, 48, 50, 52, 45, 48, 55, 45, 50, 52, 84, 49, 52, 58, 48, 52,
                  58, 48, 56, 43, 48, 48, 58, 48, 48>>
Uuid == <<99, 49, 51, 53, 53, 97, 56, 101, 45, 51, 102, 54, 101, 45, 52, 98, 53,
          97, 45, 57, 99, 49, 100, 45, 50, 102, 56, 101, 55, 97, 54, 98, 53, 100,
          52, 99>>

\* The model infos: model_type and author any string of Strings(MaxStrLen),
\* base_model "" or "m/b", license "" or "mit"
ModelInfos ==
    [model_type : Strings(MaxStrLen), base_model : {<<>>, <<109, 47, 98>>},
     author : Strings(MaxStrLen), created_at : {CreatedAt},
     last_modified : {LastModified}, license : {<<>>, <<109, 105, 116>>},
     uuid : {Uuid}]

DefaultInfo == [model_type |-> <<97>>, base_model |-> <<109, 47, 98>>,
                author |-> <<97>>, created_at |-> CreatedAt,
                last_modified |-> LastModified, license |-> <<109, 105, 116>>,
                uuid |-> Uuid]

\* The model infos of the programs that write every section
FewModelInfos == { i \in ModelInfos : /\ i.model_type = <<97>>
                                      /\ i.base_model = <<109, 47, 98>>
                                      /\ i.license = <<109, 105, 116>>
                                      /\ Len(i.author) <= 1 }

ConfigKeys == {"hidden_act", "tie_word_embeddings", "hidden_size",
               "intermediate_size", "max_position_embeddings",
               "num_attention_heads", "num_hidden_layers", "num_key_value_heads",
               "sliding_window", "rms_norm_eps", "rope_theta", "initializer_range"}

\* A config.json without any of the keys
DefaultConfig == [k \in ConfigKeys |-> AbsentV]

\* The config.json files: hidden_act absent, "", "elu" or "é";
\* tie_word_embeddings absent or true; hidden_size / num_attention_heads
\* absent or 128 / 4; sliding_window absent, 4096, 4096.0 or null
Configs ==
    { [DefaultConfig EXCEPT !["hidden_act"] = ha, !["tie_word_embeddings"] = tw,
                            !["hidden_size"] = hs[1], !["num_attention_heads"] = hs[2],
                            !["sliding_window"] = sw] :
        ha \in {AbsentV, StrV(<<>>), StrV(<<101, 108, 117>>), StrV(<<233>>)},
        tw \in {AbsentV, BoolV(TRUE)},
        hs \in {<<AbsentV, AbsentV>>, <<IntV(128), IntV(4)>>},
        sw \in {AbsentV, IntV(4096), FloatV("4096.0"), NoneV} }

Piece(piece, score, byte, control, unknown, unused) ==
    [piece |-> piece, score |-> score, is_byte |-> byte, is_control |-> control,
     is_unknown |-> unknown, is_unused |-> unused]

EmptyProcessor == [vocab |-> <<>>, bos_id |-> -1, eos_id |-> -1, pad_id |-> -1,
                   unk_id |-> -1]

\* "hello", "world", "!" with scores 0.5, 0.8, -1.0
HelloProcessor ==
    [vocab |-> << Piece(<<104, 101, 108, 108, 111>>, "0.5", FALSE, FALSE, FALSE, FALSE),
                  Piece(<<119, 111, 114, 108, 100>>, "0.8", FALSE, FALSE, FALSE, FALSE),
                  Piece(<<33>>, "-1.0", FALSE, FALSE, FALSE, FALSE) >>,
     bos_id |-> 1, eos_id |-> 2, pad_id |-> 0, unk_id |-> 3]

\* "<unk>", "<s>", "</s>", "<0x0A>", "▁é", "" as a SentencePiece model has them
SpmProcessor ==
    [vocab |-> << Piece(<<60, 117, 110, 107, 62>>, "0.0", FALSE, FALSE, TRUE, FALSE),
                  Piece(<<60, 115, 62>>, "0.0", FALSE, TRUE, FALSE, FALSE),
                  Piece(<<60, 47, 115, 62>>, "0.0", FALSE, TRUE, FALSE, FALSE),
                  Piece(<<60, 48, 120, 48, 65, 62>>, "0.0", TRUE, FALSE, FALSE, FALSE),
                  Piece(<<9601, 233>>, "-1.0", FALSE, FALSE, FALSE, FALSE),
                  Piece(<<>>, "0.5", FALSE, FALSE, FALSE, FALSE) >>,
     bos_id |-> 1, eos_id |-> 2, pad_id |-> -1, unk_id |-> 0]

Processors == {EmptyProcessor, HelloProcessor, SpmProcessor}

---------------------------------------------------------------------------
(* The programs.  A program is the sequence of the codec calls it makes;   *)
(* an exception ends it (err), the calls after it are not made.            *)

\* general.py, __main__: Start, General, End, and the mirror reads
GeneralMain == <<"magic.write_model", "general.write_model", "write_end_marker",
                 "open", "magic.read_model", "general.read_model",
                 "read_end_marker">>

\* tokenizer.py, __main__: Start, General, Parameters, Tokenizer, End, and
\* the mirror reads
TokenizerMain == <<"magic.write_model", "general.write_model", "hparams.write_model",
                   "tokenizer.write_model", "write_end_marker", "open",
                   "magic.read_model", "general.read_model", "hparams.read_model",
                   "tokenizer.read_model", "read_end_marker">>

\* validate/spm.py: AltTokenizer.write_model, then AltTokenizer.read_model
AltTokenizerMain == <<"AltTokenizer.write_model", "AltTokenizer.read_model">>

\* validate/spm.py, main(): AltTokenizer.read_model of the file that is there
ValidateMain == <<"AltTokenizer.read_model">>

\* ParametersModel.write_model on a new file, then read_model of the same
\* instance from the start of that file
ParametersRoundTrip == <<"hparams.write_model", "open", "hparams.read_model">>

\* TokenizerModel.write_model on a new file, then read_model of the same
\* instance from the start of that file
TokenizerRoundTrip == <<"tokenizer.write_model", "open", "tokenizer.read_model">>

Programs == {"general_main", "tokenizer_main", "alt_tokenizer", "validate_main",
             "parameters_round_trip", "tokenizer_round_trip"}

\* A program whose file is tampered with between its writing and its
\* reading: the with-block that writes has closed the file, the with-block
\* that reads has not opened it yet
WithDamage(script) ==
    LET k == CHOOSE j \in 1..Len(script) : script[j] = "open"
    IN SubSeq(script, 1, k - 1) \o <<"damage">> \o SubSeq(script, k, Len(script))

DamagedPrograms == {"general_main_damaged", "tokenizer_main_damaged",
                    "parameters_round_trip_damaged", "tokenizer_round_trip_damaged"}

\* GeneralModel.write_model on a new file, then read_model of the same
\* instance from the start of that file
GeneralRoundTrip == <<"general.write_model", "open", "general.read_model">>

\* A round trip after which an instance of the same class is made from
\* another record, opens the file and calls its read_model
WithOtherReader(script) == script \o <<"construct", "open", script[Len(script)]>>

ReaderPrograms == {"general_readers", "parameters_readers", "tokenizer_readers"}

Script(p) ==
    CASE p = "general_main" -> GeneralMain
      [] p = "tokenizer_main" -> TokenizerMain
      [] p = "alt_tokenizer" -> AltTokenizerMain
      [] p = "validate_main" -> ValidateMain
      [] p = "parameters_round_trip" -> ParametersRoundTrip
      [] p = "tokenizer_round_trip" -> TokenizerRoundTrip
      [] p = "general_main_damaged" -> WithDamage(GeneralMain)
      [] p = "tokenizer_main_damaged" -> WithDamage(TokenizerMain)
      [] p = "parameters_round_trip_damaged" -> WithDamage(ParametersRoundTrip)
      [] p = "tokenizer_round_trip_damaged" -> WithDamage(TokenizerRoundTrip)
      [] p = "general_readers" -> WithOtherReader(GeneralRoundTrip)
      [] p = "parameters_readers" -> WithOtherReader(ParametersRoundTrip)
      [] p = "tokenizer_readers" -> WithOtherReader(TokenizerRoundTrip)
      [] OTHER -> <<>>

\* The index of a call in the program (0 when the program does not make it)
StepOf(p, name) ==
    IF \E k \in 1..Len(Script(p)) : Script(p)[k] = name
    THEN CHOOSE k \in 1..Len(Script(p)) : Script(p)[k] = name
    ELSE 0

\* The program is about to make the call
AtStep(name) == /\ err = "none"
                /\ pc <= Len(Script(prog))
                /\ Script(prog)[pc] = name

\* The call has been made (it returned or raised) / has returned
Invoked(name) == LET k == StepOf(prog, name)
                 IN k > 0 /\ (pc > k \/ (pc = k /\ err # "none"))
Returned(name) == LET k == StepOf(prog, name) IN k > 0 /\ pc > k

\* The file general.py's __main__ leaves for the model info i
GeneralContainer(i) ==
    LET m == MagicModel_write_model(<<>>)
        g == GeneralModel_write_model(m.st, GeneralModel(i))
    IN write_end_marker(g.st).file

\* The inputs <<model info, config.json, processor>> each program is run on
Inputs(p) ==
    CASE p = "general_main" -> ModelInfos \X {DefaultConfig} \X {EmptyProcessor}
      [] p = "tokenizer_main" -> FewModelInfos \X Configs \X Processors
      [] p = "alt_tokenizer" -> FewModelInfos \X {DefaultConfig} \X Processors
      [] p = "validate_main" -> FewModelInfos \X {DefaultConfig} \X {EmptyProcessor}
      [] p = "parameters_round_trip" -> {DefaultInfo} \X Configs \X {EmptyProcessor}
      [] p = "tokenizer_round_trip" -> {DefaultInfo} \X {DefaultConfig} \X Processors
      [] OTHER -> {}

Init ==
    /\ prog \in Programs
    /\ pc = 1
    /\ pos = 0
    /\ err = "none"
    /\ \E in \in Inputs(prog) :
          /\ general = GeneralModel(in[1])
          /\ hparams = ParametersModel(in[2])
          /\ processor = in[3]
          /\ file = IF prog = "validate_main" THEN GeneralContainer(in[1]) ELSE <<>>
    /\ general_data = NoGeneralData
    /\ hparams_data = NoParametersData
    /\ tokenizer_data = NoTokenizerData
    /\ sections = <<>>
    /\ reads = <<>>
    /\ padding_at = -1
    /\ padding_needed = 0
    /\ calls = <<>>

\* The entry of the sections log for a write_model that returned w
Section(kind, w) ==
    [kind |-> kind, header_pos |-> w.header_pos, body_pos |-> w.body_pos,
     body_end |-> w.body_end, end_pos |-> w.st.pos, size |-> w.size,
     done |-> w.err = "none"]

\* The state after a write_model that returned w
Wrote(kind, w) ==
    /\ file' = w.st.file
    /\ pos' = w.st.pos
    /\ err' = w.err
    /\ pc' = IF w.err = "none" THEN pc + 1 ELSE pc
    /\ sections' = Append(sections, Section(kind, w))
    /\ UNCHANGED <<prog, general, hparams, processor, general_data, hparams_data,
                   tokenizer_data, reads, padding_at, padding_needed, calls>>

\* The state after a read_model that returned r, but for its data
HasRead(kind, r) ==
    /\ pos' = r.pos
    /\ err' = r.err
    /\ pc' = IF r.err = "none" THEN pc + 1 ELSE pc
    /\ reads' = Append(reads, [kind |-> kind, start |-> pos, pos |-> r.pos,
                               err |-> r.err])
    /\ UNCHANGED <<prog, file, general, hparams, processor, sections, padding_at,
                   padding_needed, calls>>

\* magic.write_model()
MagicWrite ==
    /\ AtStep("magic.write_model")
    /\ Wrote("Start", MagicModel_write_model(file))

\* general.write_model()
GeneralWrite ==
    /\ AtStep("general.write_model")
    /\ Wrote("General", GeneralModel_write_model([file |-> file, pos |-> pos], general))

\* hparams.write_model()
ParametersWrite ==
    /\ AtStep("hparams.write_model")
    /\ Wrote("Parameters",
             ParametersModel_write_model([file |-> file, pos |-> pos], hparams))

\* tokenizer.write_model()
TokenizerWrite ==
    /\ AtStep("tokenizer.write_model")
    /\ Wrote("Tokenizer",
             TokenizerModel_write_model([file |-> file, pos |-> pos], processor))

\* magic.writer.write_end_marker()
EndWrite ==
    /\ AtStep("write_end_marker")
    /\ LET st == write_end_marker([file |-> file, pos |-> pos])
       IN Wrote("End", [st |-> st, err |-> "none", header_pos |-> pos,
                        body_pos |-> st.pos, body_end |-> st.pos, size |-> 0])

\* with open(path / filename, "rb") as alt_read: cli_params.alt_file = alt_read
OpenForRead ==
    /\ AtStep("open")
    /\ pos' = 0
    /\ pc' = pc + 1
    /\ UNCHANGED <<prog, file, err, general, hparams, processor, general_data,
                   hparams_data, tokenizer_data, sections, reads, padding_at,
                   padding_needed, calls>>

\* magic.read_model()
MagicRead ==
    /\ AtStep("magic.read_model")
    /\ HasRead("Start", MagicModel_read_model(file))
    /\ UNCHANGED <<general_data, hparams_data, tokenizer_data>>

\* general.read_model()
GeneralRead ==
    /\ AtStep("general.read_model")
    /\ LET r == GeneralModel_read_model(file, pos, general)
       IN HasRead("General", r) /\ general_data' = r.data
    /\ UNCHANGED <<hparams_data, tokenizer_data>>

\* hparams.read_model()
ParametersRead ==
    /\ AtStep("hparams.read_model")
    /\ LET r == ParametersModel_read_model(file, pos, hparams)
       IN HasRead("Parameters", r) /\ hparams_data' = r.data
    /\ UNCHANGED <<general_data, tokenizer_data>>

\* tokenizer.read_model()
TokenizerRead ==
    /\ AtStep("tokenizer.read_model")
    /\ LET r == TokenizerModel_read_model(file, pos, processor)
       IN HasRead("Tokenizer", r) /\ tokenizer_data' = r.data
    /\ UNCHANGED <<general_data, hparams_data>>

\* magic.reader.read_end_marker()
EndRead ==
    /\ AtStep("read_end_marker")
    /\ HasRead("End", read_end_marker(file, pos))
    /\ UNCHANGED <<general_data, hparams_data, tokenizer_data>>

\* AltTokenizer.write_model: open(self.filepath, "wb") empties the file, and
\* the assignment self.alt_file = alt_write raises: alt_file is a property
\* of BaseType that has no setter
AltTokenizerWrite ==
    /\ AtStep("AltTokenizer.write_model")
    /\ file' = <<>>
    /\ pos' = 0
    /\ err' = "AttributeError"
    /\ UNCHANGED <<prog, pc, general, hparams, processor, general_data,
                   hparams_data, tokenizer_data, sections, reads, padding_at,
                   padding_needed, calls>>

\* AltTokenizer.read_model: open(self.filepath, "rb"), and the assignment
\* self.alt_file = alt_read raises for the same reason
AltTokenizerRead ==
    /\ AtStep("AltTokenizer.read_model")
    /\ pos' = 0
    /\ err' = "AttributeError"
    /\ UNCHANGED <<prog, pc, file, general, hparams, processor, general_data,
                   hparams_data, tokenizer_data, sections, reads, padding_at,
                   padding_needed, calls>>

Next ==
    \/ MagicWrite
    \/ GeneralWrite
    \/ ParametersWrite
    \/ TokenizerWrite
    \/ EndWrite
    \/ OpenForRead
    \/ MagicRead
    \/ GeneralRead
    \/ ParametersRead
    \/ TokenizerRead
    \/ EndRead
    \/ AltTokenizerWrite
    \/ AltTokenizerRead

Spec == Init /\ [][Next]_vars

---------------------------------------------------------------------------
(* A specification of calculate_padding alone: any position, one call *)

InitPadding ==
    /\ prog = "calculate_padding"
    /\ pc = 1
    /\ file = <<>>
    /\ pos \in 0..MaxPos
    /\ err = "none"
    /\ general = GeneralModel(DefaultInfo)
    /\ hparams = ParametersModel(DefaultConfig)
    /\ processor = EmptyProcessor
    /\ general_data = NoGeneralData
    /\ hparams_data = NoParametersData
    /\ tokenizer_data = NoTokenizerData
    /\ sections = <<>>
    /\ reads = <<>>
    /\ padding_at = -1
    /\ padding_needed = 0
    /\ calls = <<>>

\* BaseMagic.calculate_padding()
CalculatePadding ==
    /\ prog = "calculate_padding"
    /\ pc = 1
    /\ pc' = 2
    /\ padding_at' = pos
    /\ padding_needed' = calculate_padding(pos)
    /\ UNCHANGED <<prog, file, pos, err, general, hparams, processor,
                   general_data, hparams_data, tokenizer_data, sections, reads,
                   calls>>

NextPadding == CalculatePadding

SpecPadding == InitPadding /\ [][NextPadding]_vars

---------------------------------------------------------------------------
(* The readers on a file that is not what the writer left.  Between the    *)
(* with-block that writes and the with-block that reads, the file is cut   *)
(* short, or one byte or one marker of it is changed, or it is replaced by *)
(* the file the same write calls give in another order.                    *)

\* The values a changed byte takes
ByteValues == {1, 31, 255}

\* The six values of MagicType that is_valid accepts
MarkerConstants == {ALT, GENERAL, PARAMETERS, TOKENIZER, TENSORS, END}

\* 64-bit values that are none of the six: 0, -1, 0x1CAFEBABE, 0x616C7401
UnknownMarkers == { <<0, 0, 0, 0, 0, 0, 0, 0>>,
                    <<255, 255, 255, 255, 255, 255, 255, 255>>,
                    <<190, 186, 254, 202, 1, 0, 0, 0>>,
                    <<1, 116, 108, 97, 0, 0, 0, 0>> }

\* The strict prefixes of f
Truncated(f) == { SubSeq(f, 1, n) : n \in 0..(Len(f) - 1) }

\* f with one byte changed
ByteChanged(f) == { [f EXCEPT ![k] = v] : k \in 1..Len(f), v \in ByteValues } \ {f}

\* f with the marker of one of the sections of log changed
MarkerChanged(f, log) ==
    { Write(f, log[s].header_pos, m) :
        s \in 1..Len(log), m \in MarkerConstants \cup UnknownMarkers } \ {f}

\* One write call on the stream st, by the kind of what it writes
WriteOne(kind, st) ==
    CASE kind = "Start" -> MagicModel_write_model(st.file)
      [] kind = "General" -> GeneralModel_write_model(st, general)
      [] kind = "Parameters" -> ParametersModel_write_model(st, hparams)
      [] kind = "Tokenizer" -> TokenizerModel_write_model(st, processor)
      [] kind = "End" ->
            LET e == write_end_marker(st)
            IN [st |-> e, err |-> "none", header_pos |-> st.pos,
                body_pos |-> e.pos, body_end |-> e.pos, size |-> 0]
      [] kind = "Alignment" ->
            LET a == write_alignment(st)
            IN [st |-> a, err |-> "none", header_pos |-> st.pos,
                body_pos |-> st.pos, body_end |-> st.pos, size |-> 0]

\* The write calls of kinds, from the k-th on, on the stream st
RECURSIVE WriteInOrder(_, _, _, _)
WriteInOrder(kinds, k, st, log) ==
    IF k > Len(kinds) THEN [file |-> st.file, log |-> log]
    ELSE LET w == WriteOne(kinds[k], st)
         IN WriteInOrder(kinds, k + 1, w.st, Append(log, Section(kinds[k], w)))

\* The inputs <<model info, config.json, processor>> of the programs
DamagedInputs(p) ==
    CASE p = "general_main_damaged" ->
            {DefaultInfo, [DefaultInfo EXCEPT !.author = <<>>]}
                \X {DefaultConfig} \X {EmptyProcessor}
      [] p = "tokenizer_main_damaged" ->
            {DefaultInfo}
                \X {DefaultConfig,
                    [DefaultConfig EXCEPT !["hidden_size"] = IntV(128),
                                          !["num_attention_heads"] = IntV(4)]}
                \X {EmptyProcessor}
      [] p = "parameters_round_trip_damaged" ->
            {DefaultInfo}
                \X {DefaultConfig,
                    [DefaultConfig EXCEPT !["hidden_size"] = IntV(128),
                                          !["num_attention_heads"] = IntV(4)]}
                \X {EmptyProcessor}
      [] p = "tokenizer_round_trip_damaged" ->
            {DefaultInfo} \X {DefaultConfig} \X {EmptyProcessor}
      [] OTHER -> {}

InitDamaged ==
    /\ prog \in DamagedPrograms
    /\ pc = 1
    /\ file = <<>>
    /\ pos = 0
    /\ err = "none"
    /\ \E in \in DamagedInputs(prog) :
          /\ general = GeneralModel(in[1])
          /\ hparams = ParametersModel(in[2])
          /\ processor = in[3]
    /\ general_data = NoGeneralData
    /\ hparams_data = NoParametersData
    /\ tokenizer_data = NoTokenizerData
    /\ sections = <<>>
    /\ reads = <<>>
    /\ padding_at = -1
    /\ padding_needed = 0
    /\ calls = <<>>

\* The file is left as it is, cut short, or one byte or marker is changed
Damage ==
    /\ AtStep("damage")
    /\ file' \in {file} \cup Truncated(file) \cup ByteChanged(file)
                        \cup MarkerChanged(file, sections)
    /\ pc' = pc + 1
    /\ UNCHANGED <<prog, pos, err, general, hparams, processor, general_data,
                   hparams_data, tokenizer_data, sections, reads, padding_at,
                   padding_needed, calls>>

\* The file is replaced by the one the same write calls give in another
\* order; sections becomes the log of those calls
Reorder ==
    /\ AtStep("damage")
    /\ \E perm \in Permutations(1..Len(sections)) :
          LET kinds == [k \in 1..Len(sections) |-> sections[perm[k]].kind]
              w == WriteInOrder(kinds, 1, [file |-> <<>>, pos |-> 0], <<>>)
          IN /\ \E k \in 1..Len(sections) : perm[k] # k
             /\ file' = w.file
             /\ sections' = w.log
    /\ pc' = pc + 1
    /\ UNCHANGED <<prog, pos, err, general, hparams, processor, general_data,
                   hparams_data, tokenizer_data, reads, padding_at,
                   padding_needed, calls>>

NextDamaged ==
    \/ MagicWrite
    \/ GeneralWrite
    \/ ParametersWrite
    \/ TokenizerWrite
    \/ EndWrite
    \/ Damage
    \/ Reorder
    \/ OpenForRead
    \/ MagicRead
    \/ GeneralRead
    \/ ParametersRead
    \/ TokenizerRead
    \/ EndRead

SpecDamaged == InitDamaged /\ [][NextDamaged]_vars

---------------------------------------------------------------------------
(* A client of the writers that makes its calls in an order of its own, on *)
(* a file it opened "wb": the write_model of the four section models,      *)
(* MagicWriter.write_end_marker and MagicWriter.write_alignment.           *)

\* The client makes at most MaxCalls calls
MaxCalls == 3

InitCalls ==
    /\ prog = "writer_calls"
    /\ pc = 1
    /\ file = <<>>
    /\ pos = 0
    /\ err = "none"
    /\ general = GeneralModel(DefaultInfo)
    /\ hparams = ParametersModel(DefaultConfig)
    /\ processor \in {EmptyProcessor, HelloProcessor}
    /\ general_data = NoGeneralData
    /\ hparams_data = NoParametersData
    /\ tokenizer_data = NoTokenizerData
    /\ sections = <<>>
    /\ reads = <<>>
    /\ padding_at = -1
    /\ padding_needed = 0
    /\ calls = <<>>

\* The client can make one more call: none of its calls has raised
CanCall == prog = "writer_calls" /\ err = "none" /\ Len(sections) < MaxCalls

\* MagicModel(cli_params).write_model()
CallMagicWrite ==
    CanCall /\ Wrote("Start", WriteOne("Start", [file |-> file, pos |-> pos]))

\* GeneralModel(cli_params).write_model()
CallGeneralWrite ==
    CanCall /\ Wrote("General", WriteOne("General", [file |-> file, pos |-> pos]))

\* ParametersModel(cli_params).write_model()
CallParametersWrite ==
    CanCall /\ Wrote("Parameters", WriteOne("Parameters", [file |-> file, pos |-> pos]))

\* TokenizerModel(cli_params).write_model()
CallTokenizerWrite ==
    CanCall /\ Wrote("Tokenizer", WriteOne("Tokenizer", [file |-> file, pos |-> pos]))

\* MagicWriter(cli_params).write_end_marker()
CallEndWrite ==
    CanCall /\ Wrote("End", WriteOne("End", [file |-> file, pos |-> pos]))

\* MagicWriter(cli_params).write_alignment()
CallWriteAlignment ==
    CanCall /\ Wrote("Alignment", WriteOne("Alignment", [file |-> file, pos |-> pos]))

NextCalls ==
    \/ CallMagicWrite
    \/ CallGeneralWrite
    \/ CallParametersWrite
    \/ CallTokenizerWrite
    \/ CallEndWrite
    \/ CallWriteAlignment

SpecCalls == InitCalls /\ [][NextCalls]_vars

---------------------------------------------------------------------------
(* What the claims compare the files and the returned records with *)

\* alt/convert/spm.py: the constants of its TokenType and get_token_type
SpmTokenType == [NORMAL |-> 0, BYTE |-> 1, CONTROL |-> 2, UNKNOWN |-> 3,
                 UNUSED |-> 4, BOS |-> 5, EOS |-> 6, PAD |-> 7]

get_token_type(proc, token, index) ==
    LET e == proc.vocab[index + 1]
    IN IF e.is_byte THEN SpmTokenType.BYTE
       ELSE IF e.is_control THEN SpmTokenType.CONTROL
       ELSE IF e.is_unknown THEN SpmTokenType.UNKNOWN
       ELSE IF e.is_unused THEN SpmTokenType.UNUSED
       ELSE IF token = <<60, 115, 62>> THEN SpmTokenType.BOS
       ELSE IF token = <<60, 47, 115, 62>> THEN SpmTokenType.EOS
       ELSE IF token = <<60, 112, 97, 100, 62>> THEN SpmTokenType.PAD
       ELSE SpmTokenType.NORMAL

\* The entry of a log for the section kind (each program handles a kind once)
HasEntry(log, kind) == \E k \in 1..Len(log) : log[k].kind = kind
Entry(log, kind) == log[CHOOSE k \in 1..Len(log) : log[k].kind = kind]

\* The General record of the instance g
GeneralRecord(g) ==
    [model_type |-> g.model_type, base_model |-> g.base_model, author |-> g.author,
     created_at |-> g.created_at, last_modified |-> g.last_modified,
     license |-> g.license, uuid |-> g.uuid]

\* A float field holds a float32 in the file: the value written is the
\* float32 nearest to the value in memory
AsWritten(v) == IF v.t = "float" THEN FloatV(UnpackF(PackF(v.f))) ELSE v

\* The Parameters record of the instance h
ParametersRecord(h) ==
    [n \in DOMAIN NoParametersData |->
        IF n = "hidden_act" THEN StrV(h.hidden_act) ELSE AsWritten(h[n])]

\* The sum of the UTF-8 lengths of the pieces of a vocabulary
RECURSIVE PieceBytes(_)
PieceBytes(vocab) ==
    IF vocab = <<>> THEN 0
    ELSE Len(encode(Head(vocab).piece)) + PieceBytes(Tail(vocab))

\* The file holds, from position p on, the strings strs from k on, each as a
\* 4-byte prefix equal to its number of UTF-8 bytes and then those bytes
RECURSIVE PrefixesAreByteCounts(_, _, _, _)
PrefixesAreByteCounts(f, p, strs, k) ==
    IF k > Len(strs) THEN TRUE
    ELSE LET bytes == encode(strs[k])
         IN /\ p + 4 + Len(bytes) <= Len(f)
            /\ UnpackI(SubSeq(f, p + 1, p + 4)) = Len(bytes)
            /\ SubSeq(f, p + 5, p + 4 + Len(bytes)) = bytes
            /\ PrefixesAreByteCounts(f, p + 4 + Len(bytes), strs, k + 1)

---------------------------------------------------------------------------
\* C1: for a tokenizer-only container written by the orchestrator (Start,
\* General, Parameters, Tokenizer, End in that order) the orchestrator's read
\* runs the mirror sequence to completion without error and returns the
\* records that were written, the End marker being validated by the last read.
C1_OrchestratedRoundTrip ==
    (prog = "tokenizer_main" /\ Returned("write_end_marker")) =>
        /\ err = "none"
        /\ pc > Len(Script(prog)) =>
              /\ general_data = GeneralRecord(general)
              /\ hparams_data = ParametersRecord(hparams)
              /\ tokenizer_data.vocab_size = vocab_size(processor)
              /\ Len(tokenizer_data.vocab) = vocab_size(processor)
              /\ \A k \in 1..Len(tokenizer_data.vocab) :
                    tokenizer_data.vocab[k].token = processor.vocab[k].piece
              /\ reads[Len(reads)].kind = "End"
              /\ reads[Len(reads)].err = "none"

\* C2: GeneralModel.write_model followed by GeneralModel.read_model on the
\* same instance returns the seven strings that were written and leaves the
\* read position at the end of the section's padding.
C2_GeneralRoundTrip ==
    Invoked("general.read_model") =>
        /\ Returned("general.read_model")
        /\ general_data = GeneralRecord(general)
        /\ Entry(reads, "General").pos = Entry(sections, "General").end_pos

\* C3: ParametersModel.write_model followed by ParametersModel.read_model on
\* the same instance succeeds, returns every field with the value that was
\* written and consumes exactly the bytes that were written.
C3_ParametersRoundTrip ==
    Invoked("hparams.read_model") =>
        /\ Returned("hparams.read_model")
        /\ hparams_data = ParametersRecord(hparams)
        /\ Entry(reads, "Parameters").start = Entry(sections, "Parameters").header_pos
        /\ Entry(reads, "Parameters").pos = Entry(sections, "Parameters").end_pos

\* C4: TokenizerModel.write_model followed by TokenizerModel.read_model
\* returns the vocab_size and the four ids that were written and exactly
\* vocab_size entries, the entry at position i having the text and the type
\* of the token with id i.
C4_TokenizerRoundTrip ==
    /\ Invoked("tokenizer.write_model") => Returned("tokenizer.write_model")
    /\ Invoked("tokenizer.read_model") =>
          /\ Returned("tokenizer.read_model")
          /\ tokenizer_data.vocab_size = vocab_size(processor)
          /\ tokenizer_data.bos_id = processor.bos_id
          /\ tokenizer_data.eos_id = processor.eos_id
          /\ tokenizer_data.pad_id = processor.pad_id
          /\ tokenizer_data.unk_id = processor.unk_id
          /\ Len(tokenizer_data.vocab) = vocab_size(processor)
          /\ \A i \in 0..(vocab_size(processor) - 1) :
                /\ tokenizer_data.vocab[i + 1].token = id_to_piece(processor, i)
                /\ tokenizer_data.vocab[i + 1].type
                       = get_token_type(processor, id_to_piece(processor, i), i)

\* C5: the body_size GeneralModel.write_model puts in the section header
\* equals the number of bytes it emits between the header and the padding.
C5_GeneralSizeAccuracy ==
    \A k \in 1..Len(sections) :
        sections[k].kind = "General" =>
            sections[k].size = sections[k].body_end - sections[k].body_pos

\* C6: the body_size ParametersModel.write_model puts in the section header
\* equals the number of body bytes it emits, each of the 13 fields being
\* emitted once with its fixed width.
C6_ParametersSizeAccuracy ==
    \A k \in 1..Len(sections) :
        sections[k].kind = "Parameters" =>
            /\ sections[k].size = sections[k].body_end - sections[k].body_pos
            /\ sections[k].body_end - sections[k].body_pos
                   = 4 + Len(encode(hparams.hidden_act)) + 1 + 4 * 11

\* C7: TokenizerModel.calculate_size equals the number of body bytes
\* TokenizerModel.write_model emits: 20 bytes of metadata plus, for each
\* token, 12 bytes plus the UTF-8 length of the token.
C7_TokenizerSizeAccuracy ==
    \A k \in 1..Len(sections) :
        sections[k].kind = "Tokenizer" =>
            /\ sections[k].size = sections[k].body_end - sections[k].body_pos
            /\ sections[k].body_end - sections[k].body_pos
                   = 20 + 12 * Len(processor.vocab) + PieceBytes(processor.vocab)

\* C8: every length-prefixed string written by the General and Parameters
\* codecs carries a 4-byte prefix equal to the number of UTF-8 bytes that
\* follow it (0 for the empty string).
C8_PrefixIsByteCount ==
    \A k \in 1..Len(sections) :
        /\ sections[k].kind = "General" =>
              PrefixesAreByteCounts(file, sections[k].body_pos,
                  <<general.model_type, general.base_model, general.author,
                    general.created_at, general.last_modified, general.license,
                    general.uuid>>, 1)
        /\ sections[k].kind = "Parameters" =>
              PrefixesAreByteCounts(file, sections[k].body_pos,
                                    <<hparams.hidden_act>>, 1)

\* C9: after write_model of the Start, General, Parameters and Tokenizer
\* sections completes, the file position is a multiple of 32 and the
\* distance from the start of the body to the position after the padding is
\* at least the body_size declared in the header.
C9_AlignmentInvariant ==
    \A k \in 1..Len(sections) :
        (sections[k].done /\ sections[k].kind # "End") =>
            /\ sections[k].end_pos % ALIGNMENT = 0
            /\ sections[k].end_pos - sections[k].body_pos >= sections[k].size

---------------------------------------------------------------------------
\* C10: for every position p >= 0 calculate_padding returns a value in
\* [0, 32) that brings p to a multiple of 32, 0 exactly when p is already a
\* multiple of 32, and 28 for p = 68.
C10_PaddingContract ==
    padding_at >= 0 =>
        /\ padding_needed \in 0..(ALIGNMENT - 1)
        /\ (padding_at + padding_needed) % ALIGNMENT = 0
        /\ (padding_needed = 0 <=> padding_at % ALIGNMENT = 0)
        /\ (padding_at = 68 => padding_needed = 28)

C10_Witness == padding_at = 68 /\ padding_needed = 28

---------------------------------------------------------------------------
\* The kinds of the entries of a log, in order
Kinds(log) == [k \in 1..Len(log) |-> log[k].kind]

\* The sections of a tokenizer-only container
OrchestratorOrder == <<"Start", "General", "Parameters", "Tokenizer", "End">>

\* The orchestrator's write is over: its last call returned, or one of its
\* calls raised
WriteIsOver ==
    \/ prog = "tokenizer_main"
          /\ \/ Returned("write_end_marker")
             \/ err # "none" /\ pc <= StepOf(prog, "write_end_marker")
    \/ prog = "alt_tokenizer" /\ Invoked("AltTokenizer.write_model")

\* C11: in every run of the orchestrator's write the sections are emitted in
\* the order Start, General, Parameters, Tokenizer, End, each exactly once,
\* and each header starts on a 32-byte boundary, right after the padding of
\* the section before it.
C11_SectionOrder ==
    prog \in {"tokenizer_main", "alt_tokenizer"} =>
        /\ Len(sections) <= Len(OrchestratorOrder)
        /\ Kinds(sections) = SubSeq(OrchestratorOrder, 1, Len(sections))
        /\ \A k \in 1..Len(sections) :
              /\ sections[k].header_pos % ALIGNMENT = 0
              /\ sections[k].header_pos
                     = (IF k = 1 THEN 0 ELSE sections[k - 1].end_pos)
        /\ WriteIsOver =>
              /\ Kinds(sections) = OrchestratorOrder
              /\ \A k \in 1..Len(sections) : sections[k].done

Finalized == \E k \in 1..Len(sections) : sections[k].kind = "End" /\ sections[k].done

\* C12: once the End marker has been written the container is Finalized: no
\* later write operation (a write_model, write_alignment, another
\* write_end_marker) adds or changes bytes of the file.
C12_FinalizedForbidsWrites == [][Finalized => file' = file]_vars

---------------------------------------------------------------------------
\* Reading a file that is not the one the writers left.

SectionKinds == {"Start", "General", "Parameters", "Tokenizer"}

OwnMarker(kind) ==
    CASE kind = "Start" -> ALT
      [] kind = "General" -> GENERAL
      [] kind = "Parameters" -> PARAMETERS
      [] kind = "Tokenizer" -> TOKENIZER
      [] kind = "End" -> END

\* The padding the read that starts at p has to cross is present and zero.
PaddingIsZero(p) ==
    /\ p + calculate_padding(p) <= Len(file)
    /\ \A q \in (p + 1)..(p + calculate_padding(p)) : file[q] = 0

\* Where the read r looks for its marker: at the start of the file (Start),
\* after the alignment (Tokenizer, End), where the read begins (the others).
MarkerPos(r) ==
    IF r.kind = "Start" THEN 0
    ELSE IF r.kind \in {"Tokenizer", "End"} THEN r.start + calculate_padding(r.start)
    ELSE r.start

\* The read r got as far as its marker, and eight bytes are there.
SawMarker(r) ==
    /\ r.kind \in {"Tokenizer", "End"} => PaddingIsZero(r.start)
    /\ MarkerPos(r) + 8 <= Len(file)

MarkerSeen(r) == SubSeq(file, MarkerPos(r) + 1, MarkerPos(r) + 8)

ReadIsOver == prog \in DamagedPrograms /\ (err # "none" \/ pc > Len(Script(prog)))

\* The file the writers leave when they are called in the order of the log.
Written == WriteInOrder(Kinds(sections), 1, [file |-> <<>>, pos |-> 0], <<>>).file

\* The order in which the program calls its writers.
WriteOrder ==
    CASE prog = "general_main_damaged" -> <<"Start", "General", "End">>
      [] prog = "tokenizer_main_damaged" -> OrchestratorOrder
      [] prog = "parameters_round_trip_damaged" -> <<"Parameters">>
      [] prog = "tokenizer_round_trip_damaged" -> <<"Tokenizer">>
      [] OTHER -> <<>>

\* C14: the six marker constants are pairwise distinct, and a section read
\* that finds a 64-bit value that is none of the six at its marker position
\* fails in read_section_marker with the unknown-marker error, right after
\* the eight bytes of the marker.
C14_MarkerExclusivity ==
    /\ Cardinality(MarkerConstants) = 6
    /\ \A k \in 1..Len(reads) :
          (/\ reads[k].kind \in SectionKinds
           /\ SawMarker(reads[k])
           /\ MarkerSeen(reads[k]) \notin MarkerConstants)
          => /\ reads[k].err = "ValueError: invalid section marker"
             /\ reads[k].pos = MarkerPos(reads[k]) + 8

C14_Witness ==
    \E k \in 1..Len(reads) :
        /\ reads[k].kind = "General"
        /\ SawMarker(reads[k])
        /\ MarkerSeen(reads[k]) \notin MarkerConstants
        /\ reads[k].err = "ValueError: invalid section marker"

\* C15: a section read that finds the registered marker of another kind at
\* its marker position fails and returns no record, and a file whose
\* sections were written in another order than the program's is never read
\* to the end.
C15_WrongSectionRejected ==
    /\ \A k \in 1..Len(reads) :
          (/\ reads[k].kind \in SectionKinds
           /\ SawMarker(reads[k])
           /\ MarkerSeen(reads[k]) \in MarkerConstants \ {OwnMarker(reads[k].kind)})
          => /\ reads[k].err # "none"
             /\ k = Len(reads)
             /\ reads[k].kind = "General" => general_data = NoGeneralData
             /\ reads[k].kind = "Parameters" => hparams_data = NoParametersData
             /\ reads[k].kind = "Tokenizer" => tokenizer_data = NoTokenizerData
    /\ (/\ prog \in DamagedPrograms
        /\ Len(sections) = Len(WriteOrder)
        /\ Kinds(sections) # WriteOrder)
       => pc <= Len(Script(prog))

C15_Witness ==
    /\ prog = "general_main_damaged"
    /\ Kinds(sections) = <<"Start", "End", "General">>
    /\ Len(reads) = 2
    /\ reads[2].kind = "General"
    /\ MarkerSeen(reads[2]) = END
    /\ reads[2].err = "ValueError: invalid section marker"
    /\ general_data = NoGeneralData

\* The size the header of the section the read r looked at declares.
DeclaredSize(r) == UnpackQ(SubSeq(file, MarkerPos(r) + 9, MarkerPos(r) + 16))

\* Where the read r is when it has consumed the declared size and no more:
\* at the end of the body (Tokenizer, which reads no trailing alignment) or
\* after the padding that follows the body (General, Parameters).
EndOfDeclared(r) ==
    LET body_end == MarkerPos(r) + 16 + DeclaredSize(r)
    IN IF r.kind = "Tokenizer" THEN body_end
       ELSE body_end + calculate_padding(body_end)

\* C16: a General, Parameters or Tokenizer read that returns has consumed
\* exactly the number of body bytes the header in the file declares; a read
\* that consumes another number of bytes fails.
C16_SizeVerifiedOnRead ==
    \A k \in 1..Len(reads) :
        (reads[k].kind \in {"General", "Parameters", "Tokenizer"} /\ reads[k].err = "none")
        => reads[k].pos = EndOfDeclared(reads[k])

\* The offset of the head_size field of the Parameters section the read r
\* looked at: after the header, the hidden_act string, the bool and seven
\* of the eight integers.
HeadSizeAt(r) == MarkerPos(r) + 16 + 4 + Len(encode(hparams.hidden_act)) + 1 + 4 * 7

StoredHeadSize(r) == UnpackI(SubSeq(file, HeadSizeAt(r) + 1, HeadSizeAt(r) + 4))

\* C17: ParametersModel.read_model on a section with hidden_size 128 and
\* num_attention_heads 4 accepts the stored head_size 32 (the file as
\* written) and returns it, and rejects the stored head_size 31 (the file as
\* written but for that field).
C17_HeadSizeRecomputed ==
    \A k \in 1..Len(reads) :
        (/\ reads[k].kind = "Parameters"
         /\ hparams.hidden_size = IntV(128)
         /\ hparams.num_attention_heads = IntV(4))
        => /\ file = Written
              => /\ StoredHeadSize(reads[k]) = 32
                 /\ reads[k].err = "none"
                 /\ hparams_data.head_size = IntV(32)
           /\ file = [Written EXCEPT ![HeadSizeAt(reads[k]) + 1] = 31]
              => /\ StoredHeadSize(reads[k]) = 31
                 /\ reads[k].err # "none"

\* The version field of the Start section of the file is there and is not
\* the supported version.
OtherVersion == Len(file) >= 20 /\ SubSeq(file, 17, 20) # PackI(VERSION)

\* C18: MagicModel.read_model fails on every file whose version field is not
\* the supported version, and no section is read after it; when the Start
\* marker and both fields are there, the failure is the version error,
\* raised right after the two fields.
C18_VersionChecked ==
    \A k \in 1..Len(reads) :
        (reads[k].kind = "Start" /\ OtherVersion)
        => /\ reads[k].err # "none"
           /\ k = Len(reads)
           /\ pc = StepOf(prog, "magic.read_model")
           /\ (MarkerSeen(reads[k]) = ALT /\ Len(file) >= 24)
              => /\ reads[k].err = "ValueError: invalid version"
                 /\ reads[k].pos = 24

C18_Witness ==
    /\ prog = "tokenizer_main_damaged"
    /\ OtherVersion
    /\ Len(file) = Len(Written)
    /\ Len(reads) = 1
    /\ reads[1].kind = "Start"
    /\ reads[1].err = "ValueError: invalid version"
    /\ err = "ValueError: invalid version"

\* The file is the written file but for one byte of the padding that
\* follows the body of section k, which is not zero.
PaddingChanged(k) ==
    /\ Len(file) = Len(Written)
    /\ \E q \in (sections[k].body_end + 1)..sections[k].end_pos :
          /\ file[q] # 0
          /\ file = [Written EXCEPT ![q] = file[q]]

\* C19: when one padding byte after the Start, General, Parameters or
\* Tokenizer section of an orchestrated file is not zero, the orchestrated
\* read ends with the padding error, raised by the read_alignment that
\* reads that padding, and nothing after that padding is read.
C19_PaddingCorruption ==
    (/\ prog \in {"general_main_damaged", "tokenizer_main_damaged"}
     /\ Kinds(sections) = WriteOrder
     /\ ReadIsOver)
    => \A k \in 1..Len(sections) :
          (sections[k].kind \in SectionKinds /\ PaddingChanged(k))
          => /\ err = "ValueError: padding"
             /\ reads[Len(reads)].err = "ValueError: padding"
             /\ reads[Len(reads)].pos = sections[k].end_pos

\* The file is a strict prefix of the written file.
StrictPrefix == Len(file) < Len(Written) /\ file = SubSeq(Written, 1, Len(file))

\* C20: a strict prefix of the container an orchestrated write leaves is
\* never read to the end by the orchestrated read: one of the reads fails.
C20_TruncatedRejected ==
    (/\ prog \in {"general_main_damaged", "tokenizer_main_damaged"}
     /\ Kinds(sections) = WriteOrder
     /\ Returned("damage")
     /\ StrictPrefix)
    => /\ pc <= Len(Script(prog))
       /\ ReadIsOver => err # "none"

C20_Witness ==
    /\ prog = "general_main_damaged"
    /\ Kinds(sections) = WriteOrder
    /\ StrictPrefix
    /\ Len(file) = Len(Written) - 1
    /\ Len(reads) = 3
    /\ reads[3].kind = "End"
    /\ reads[3].err = "struct.error"
    /\ err = "struct.error"

---------------------------------------------------------------------------
(* The two classifiers called alone on a vocabulary of one token: any      *)
(* combination of the four flags of the processor, any of five texts.      *)

\* "<s>", "</s>", "<pad>", "<unk>", "hello"
ClassifiedTexts == { <<60, 115, 62>>, <<60, 47, 115, 62>>, <<60, 112, 97, 100, 62>>,
                     <<60, 117, 110, 107, 62>>, <<104, 101, 108, 108, 111>> }

InitClassify ==
    /\ prog = "get_type"
    /\ pc = 1
    /\ file = <<>>
    /\ pos = 0
    /\ err = "none"
    /\ general = GeneralModel(DefaultInfo)
    /\ hparams = ParametersModel(DefaultConfig)
    /\ \E text \in ClassifiedTexts, byte \in BOOLEAN, control \in BOOLEAN,
          unknown \in BOOLEAN, unused \in BOOLEAN :
          processor = [EmptyProcessor EXCEPT
                          !.vocab = <<Piece(text, "0.5", byte, control, unknown, unused)>>]
    /\ general_data = NoGeneralData
    /\ hparams_data = NoParametersData
    /\ tokenizer_data = NoTokenizerData
    /\ sections = <<>>
    /\ reads = <<>>
    /\ padding_at = -1
    /\ padding_needed = 0
    /\ calls = <<>>

\* The state after the call fn(index, token) that gave r
Classified(fn, r) ==
    /\ calls = <<>>
    /\ calls' = <<[fn |-> fn, err |-> r.err, value |-> r.value]>>
    /\ err' = r.err
    /\ pc' = pc + 1
    /\ UNCHANGED <<prog, file, pos, general, hparams, processor, general_data,
                   hparams_data, tokenizer_data, sections, reads, padding_at,
                   padding_needed>>

\* TokenType(processor).get_type(0, token) of alt/base.py, as
\* TokenizerModel.write_model calls it
GetType ==
    /\ prog = "get_type"
    /\ Classified("get_type", get_type(processor, 0, id_to_piece(processor, 0)))

\* TokenType(processor).get_token_type(token, 0) of alt/convert/spm.py
GetTokenType ==
    /\ prog = "get_type"
    /\ Classified("get_token_type",
                  [err |-> "none",
                   value |-> get_token_type(processor, id_to_piece(processor, 0), 0)])

NextClassify == GetType \/ GetTokenType

SpecClassify == InitClassify /\ [][NextClassify]_vars

\* The name of the first rule of the precedence order that matches
FirstMatch(e) ==
    IF e.is_byte THEN "BYTE"
    ELSE IF e.is_control THEN "CONTROL"
    ELSE IF e.is_unknown THEN "UNKNOWN"
    ELSE IF e.is_unused THEN "UNUSED"
    ELSE IF e.piece = <<60, 115, 62>> THEN "BOS"
    ELSE IF e.piece = <<60, 47, 115, 62>> THEN "EOS"
    ELSE IF e.piece = <<60, 112, 97, 100, 62>> THEN "PAD"
    ELSE "NORMAL"

\* C21: a classification returns the enumeration value of the first rule
\* that matches in the order byte, control, unknown, unused, "<s>", "</s>",
\* "<pad>", otherwise NORMAL: a token with the byte and the control flag is
\* BYTE, and the result is one of the eight values.
C21_ClassificationPrecedence ==
    \A k \in 1..Len(calls) :
        calls[k].fn \in {"get_type", "get_token_type"}
        => /\ calls[k].err = "none"
           /\ calls[k].value = SpmTokenType[FirstMatch(processor.vocab[1])]
           /\ calls[k].value \in 0..7
           /\ (processor.vocab[1].is_byte /\ processor.vocab[1].is_control)
              => calls[k].value = SpmTokenType.BYTE

---------------------------------------------------------------------------
\* The offset of the vocab_size field of the Tokenizer section the read r
\* looked at: the first field after the header.
VocabSizeAt(r) == MarkerPos(r) + 16

StoredVocabSize(r) == UnpackI(SubSeq(file, VocabSizeAt(r) + 1, VocabSizeAt(r) + 4))

\* The file is the written file but for its vocab_size field.
OnlyVocabSizeChanged(r) ==
    /\ Len(file) = Len(Written)
    /\ \A q \in 1..Len(file) :
          q \notin (VocabSizeAt(r) + 1)..(VocabSizeAt(r) + 4) => file[q] = Written[q]

\* C22: TokenizerModel.read_model fails on a Tokenizer section whose stored
\* vocab_size is not the number of token entries in its body (the number
\* the writer put there, the rest of the file being as written).
C22_VocabSizeValidated ==
    \A k \in 1..Len(reads) :
        (/\ reads[k].kind = "Tokenizer"
         /\ SawMarker(reads[k])
         /\ Len(file) >= VocabSizeAt(reads[k]) + 4
         /\ OnlyVocabSizeChanged(reads[k])
         /\ StoredVocabSize(reads[k]) # vocab_size(processor))
        => reads[k].err # "none"

\* C23: a read_model of the Start, General, Parameters or Tokenizer section
\* that returns leaves the read position on a multiple of the alignment,
\* after the padding that follows the body of the section.
C23_ReadEndsAligned ==
    \A k \in 1..Len(reads) :
        (reads[k].kind \in SectionKinds /\ reads[k].err = "none")
        => /\ reads[k].pos % ALIGNMENT = 0
           /\ HasEntry(sections, reads[k].kind)
              => reads[k].pos = Entry(sections, reads[k].kind).end_pos

\* The orchestrated program has ended, by an exception or after its last step.
OrchestratorIsOver ==
    /\ prog \in {"tokenizer_main", "alt_tokenizer"}
    /\ (err # "none" \/ pc > Len(Script(prog)))

\* C24: the orchestrator leaves a container of one of two forms, with or
\* without a Tensors section between Tokenizer and End, and its read
\* accepts the container: it reads the sections that were written, in
\* their order, without an error.
C24_OptionalTensors ==
    OrchestratorIsOver
    => /\ err = "none"
       /\ Kinds(sections) \in
             {OrchestratorOrder,
              <<"Start", "General", "Parameters", "Tokenizer", "Tensors", "End">>}
       /\ Kinds(reads) = Kinds(sections)

\* The fields of the Parameters body after hidden_act, in the order of the
\* tables of the module's documentation: the derived head_size is last.
DocumentedOrder ==
    <<"tie_word_embeddings", "hidden_size", "intermediate_size",
      "max_position_embeddings", "num_attention_heads", "num_hidden_layers",
      "num_key_value_heads", "sliding_window", "rope_theta", "rms_norm_eps",
      "initializer_range", "head_size">>

\* C26: the body ParametersModel.write_model has written holds hidden_act
\* and then the fields in the documented order.
C26_ParametersFieldOrder ==
    \A k \in 1..Len(sections) :
        (sections[k].kind = "Parameters" /\ sections[k].done)
        => SubSeq(file, sections[k].body_pos + 1, sections[k].body_end)
              = PutString(hparams.hidden_act_len, hparams.hidden_act)
                    \o PutValues(hparams, DocumentedOrder, 1)

---------------------------------------------------------------------------
(* One file, two readers: the instance that wrote the file reads it, then  *)
(* an instance of the same class made from another record reads it.        *)

\* The records the instance that writes is made from: author "a", "", "ab"
ReaderInfos == {DefaultInfo, [DefaultInfo EXCEPT !.author = <<>>],
                [DefaultInfo EXCEPT !.author = <<97, 98>>]}

\* The records the other instance is made from
OtherInfos == ReaderInfos \cup {[DefaultInfo EXCEPT !.license = <<>>]}
OtherConfigs == Configs
OtherProcessors == Processors

ReaderInputs(p) ==
    CASE p = "general_readers" -> ReaderInfos \X {DefaultConfig} \X {EmptyProcessor}
      [] p = "parameters_readers" -> {DefaultInfo} \X Configs \X {EmptyProcessor}
      [] p = "tokenizer_readers" -> {DefaultInfo} \X {DefaultConfig} \X Processors
      [] OTHER -> {}

InitReaders ==
    /\ prog \in ReaderPrograms
    /\ pc = 1
    /\ file = <<>>
    /\ pos = 0
    /\ err = "none"
    /\ \E in \in ReaderInputs(prog) :
          /\ general = GeneralModel(in[1])
          /\ hparams = ParametersModel(in[2])
          /\ processor = in[3]
    /\ general_data = NoGeneralData
    /\ hparams_data = NoParametersData
    /\ tokenizer_data = NoTokenizerData
    /\ sections = <<>>
    /\ reads = <<>>
    /\ padding_at = -1
    /\ padding_needed = 0
    /\ calls = <<>>

\* GeneralModel(cli_params) / ParametersModel(cli_params) /
\* TokenizerModel(cli_params) on another record: the instance that reads next
Construct ==
    /\ AtStep("construct")
    /\ \E info \in OtherInfos, config \in OtherConfigs, proc \in OtherProcessors :
          /\ general' = IF prog = "general_readers" THEN GeneralModel(info) ELSE general
          /\ hparams' = IF prog = "parameters_readers" THEN ParametersModel(config)
                        ELSE hparams
          /\ processor' = IF prog = "tokenizer_readers" THEN proc ELSE processor
    /\ pc' = pc + 1
    /\ UNCHANGED <<prog, file, pos, err, general_data, hparams_data, tokenizer_data,
                   sections, reads, padding_at, padding_needed, calls>>

NextReaders ==
    \/ GeneralWrite
    \/ ParametersWrite
    \/ TokenizerWrite
    \/ OpenForRead
    \/ GeneralRead
    \/ ParametersRead
    \/ TokenizerRead
    \/ Construct

SpecReaders == InitReaders /\ [][NextReaders]_vars

\* The record the last read_model of the program has returned
LastRecord ==
    CASE prog = "general_readers" -> general_data
      [] prog = "parameters_readers" -> hparams_data
      [] prog = "tokenizer_readers" -> tokenizer_data
      [] OTHER -> <<>>

\* C27: when the instance that wrote a file has read it and an instance
\* made from another record reads the same file, the second read returns
\* as the first did, and returns the same record.
C27_ReadDependsOnFileOnly ==
    [][(prog \in ReaderPrograms /\ Len(reads) = 1 /\ Len(reads') = 2)
       => /\ reads[1].err = "none"
          /\ reads'[2].err = "none"
          /\ LastRecord' = LastRecord]_vars

---------------------------------------------------------------------------
\* The 32 bytes of the Start section: the header with size 8, the version,
\* the alignment, eight zero bytes.
StartBytes == ALT \o PackQ(8) \o PackI(VERSION) \o PackI(ALIGNMENT) \o Zeros(8)

\* The alignment field of the Start section of the file is there and is
\* not the alignment.
OtherAlignment == Len(file) >= 24 /\ SubSeq(file, 21, 24) # PackI(ALIGNMENT)

---------------------------------------------------------------------------
(* examples/qk8.py: the 8-bit float of one sign bit, three exponent bits and
   four mantissa bits.  A 32-bit pattern is the pair <<hi, lo>> of its two
   16-bit halves, bits = hi * 2^16 + lo. *)

e_bias_32 == 127
e_bias_8 == 3
max_exponent == 7
min_exponent == 0

\* The patterns given to float32_to_float8: every upper half, and lower
\* halves of no bit, the lowest bit, the highest bit, and every bit
Float32Patterns == (0..65535) \X {0, 1, 32768, 65535}

Float8Codes == 0..255

\* struct.pack("f", value) read as "I", for the value
\* (-1)^sign * num * 2^exp with num > 0 that is a normal float32 with no
\* bit lost: the exponent field is the biased position of the leading bit
\* of num, the mantissa field the bits of num after the leading one
RECURSIVE bit_length(_)
bit_length(n) == IF n = 0 THEN 0 ELSE 1 + bit_length(n \div 2)

pack_f(sign, num, exp) ==
    LET k == bit_length(num) - 1
        exponent == k + exp + e_bias_32
        mantissa == num * 2^(23 - k) - 2^23
    IN <<sign * 2^15 + exponent * 2^7 + mantissa \div 2^16, mantissa % 2^16>>

\* float32_to_float8 without the lower clamp of the exponent
float32_to_float8_unclamped(bits) ==
    LET sign == (bits[1] \div 2^15) % 2
        exponent == (bits[1] \div 2^7) % 256
        mantissa == (bits[1] % 2^7) * 2^16 + bits[2]
        e == exponent - e_bias_32 + e_bias_8
        e_compressed == IF e < max_exponent THEN e ELSE max_exponent
        m_compressed == (mantissa \div 2^19) % 16
    IN sign * 2^7 + e_compressed * 2^4 + m_compressed

\* float32_to_float8(value), bits being the pattern of struct.pack("f", value).
\* sign << 7, e_compressed << 4 and m_compressed have no bit in common, so
\* their bitwise or is their sum.
float32_to_float8(bits) ==
    LET sign == (bits[1] \div 2^15) % 2
        exponent == (bits[1] \div 2^7) % 256
        mantissa == (bits[1] % 2^7) * 2^16 + bits[2]
        e == exponent - e_bias_32 + e_bias_8
        e_min == IF e < max_exponent THEN e ELSE max_exponent
        e_compressed == IF e_min > min_exponent THEN e_min ELSE min_exponent
        m_compressed == (mantissa \div 2^19) % 16
    IN sign * 2^7 + e_compressed * 2^4 + m_compressed

\* float8_to_float32(float8): the value is
\* (-1)^sign * 2^(e_expanded - e_bias_32) * (1 + m_compressed / 16), which is
\* (-1)^sign * (16 + m_compressed) * 2^(e_expanded - e_bias_32 - 4); the
\* result is the float32 of that value, given by its pattern
float8_to_float32(float8) ==
    LET sign == (float8 \div 2^7) % 2
        e_compressed == (float8 \div 2^4) % 8
        m_compressed == float8 % 16
        e_expanded == e_compressed - e_bias_8 + e_bias_32
    IN pack_f(sign, 16 + m_compressed, e_expanded - e_bias_32 - 4)

InitFloat8 ==
    /\ prog = "qk8"
    /\ pc = 1
    /\ file = <<>>
    /\ pos = 0
    /\ err = "none"
    /\ general = GeneralModel(DefaultInfo)
    /\ hparams = ParametersModel(DefaultConfig)
    /\ processor = EmptyProcessor
    /\ general_data = NoGeneralData
    /\ hparams_data = NoParametersData
    /\ tokenizer_data = NoTokenizerData
    /\ sections = <<>>
    /\ reads = <<>>
    /\ padding_at = -1
    /\ padding_needed = 0
    /\ calls = <<>>

\* compressed = float32_to_float8(v) for the float of a pattern
Float32ToFloat8 ==
    /\ prog = "qk8"
    /\ calls = <<>>
    /\ \E bits \in Float32Patterns :
          calls' = <<[fn |-> "float32_to_float8", arg |-> bits,
                      value |-> float32_to_float8(bits)]>>
    /\ pc' = pc + 1
    /\ UNCHANGED <<prog, file, pos, err, general, hparams, processor,
                   general_data, hparams_data, tokenizer_data, sections, reads,
                   padding_at, padding_needed>>

\* decompressed = float8_to_float32(compressed) for a code
Float8ToFloat32 ==
    /\ prog = "qk8"
    /\ calls = <<>>
    /\ \E float8 \in Float8Codes :
          calls' = <<[fn |-> "float8_to_float32", arg |-> float8,
                      value |-> float8_to_float32(float8)]>>
    /\ pc' = pc + 1
    /\ UNCHANGED <<prog, file, pos, err, general, hparams, processor,
                   general_data, hparams_data, tokenizer_data, sections, reads,
                   padding_at, padding_needed>>

\* float32_to_float8(decompressed) for the float the call before returned
Float32ToFloat8Again ==
    /\ prog = "qk8"
    /\ Len(calls) = 1
    /\ calls[1].fn = "float8_to_float32"
    /\ calls' = Append(calls, [fn |-> "float32_to_float8", arg |-> calls[1].value,
                               value |-> float32_to_float8(calls[1].value)])
    /\ pc' = pc + 1
    /\ UNCHANGED <<prog, file, pos, err, general, hparams, processor,
                   general_data, hparams_data, tokenizer_data, sections, reads,
                   padding_at, padding_needed>>

NextFloat8 == Float32ToFloat8 \/ Float8ToFloat32 \/ Float32ToFloat8Again

SpecFloat8 == InitFloat8 /\ [][NextFloat8]_vars

\* C30: float32_to_float8 returns an integer of 0..255 for every pattern,
\* and float8_to_float32 followed by float32_to_float8 gives every code back.
C30_Float8RoundTrip ==
    prog = "qk8"
    => \A k \in 1..Len(calls) :
          /\ calls[k].fn = "float32_to_float8" => calls[k].value \in 0..255
          /\ k = 2 => calls[2].value = calls[1].arg

\* the code with no exponent bit and no mantissa bit has come back from the
\* float 0.125, whose exponent field is 124
C30_Witness ==
    /\ prog = "qk8"
    /\ Len(calls) = 2
    /\ calls[1].fn = "float8_to_float32"
    /\ calls[1].arg = 128
    /\ calls[1].value = <<48640, 0>>
    /\ calls[2].fn = "float32_to_float8"
    /\ calls[2].value = 128

---------------------------------------------------------------------------
(* examples/q8.py.  Its floats are binary64.  A natural number of any size
   is the sequence of its digits to the base Limb, lowest first, with no
   zero at the top; a float is [s, m, e] for (-1)^s * m * 2^e with m of
   exactly 53 bits, or m = <<>> for zero.  The values of the model stay far
   from the subnormal numbers and from infinity. *)

LimbBits == 15
Limb == 2^LimbBits

RECURSIVE BTrim(_)
BTrim(a) ==
    IF a = <<>> THEN <<>>
    ELSE IF a[Len(a)] = 0 THEN BTrim(SubSeq(a, 1, Len(a) - 1)) ELSE a

RECURSIVE BFromInt(_)
BFromInt(n) == IF n = 0 THEN <<>> ELSE <<n % Limb>> \o BFromInt(n \div Limb)

RECURSIVE BToInt(_)
BToInt(a) == IF a = <<>> THEN 0 ELSE Head(a) + Limb * BToInt(Tail(a))

RECURSIVE BAddC(_, _, _)
BAddC(a, b, c) ==
    IF a = <<>> /\ b = <<>>
    THEN IF c = 0 THEN <<>> ELSE <<c>>
    ELSE LET x == IF a = <<>> THEN 0 ELSE Head(a)
             y == IF b = <<>> THEN 0 ELSE Head(b)
             sum == x + y + c
         IN <<sum % Limb>> \o BAddC(IF a = <<>> THEN <<>> ELSE Tail(a),
                                    IF b = <<>> THEN <<>> ELSE Tail(b),
                                    sum \div Limb)

BAdd(a, b) == BAddC(a, b, 0)

\* a - b - c for a >= b + c
RECURSIVE BSubC(_, _, _)
BSubC(a, b, c) ==
    IF a = <<>> THEN <<>>
    ELSE LET y == IF b = <<>> THEN 0 ELSE Head(b)
             d == Head(a) - y - c
         IN <<IF d < 0 THEN d + Limb ELSE d>>
            \o BSubC(Tail(a), IF b = <<>> THEN <<>> ELSE Tail(b),
                     IF d < 0 THEN 1 ELSE 0)

BSub(a, b) == BTrim(BSubC(a, b, 0))

RECURSIVE BCmpTop(_, _, _)
BCmpTop(a, b, i) ==
    IF i = 0 THEN 0
    ELSE IF a[i] < b[i] THEN -1
    ELSE IF a[i] > b[i] THEN 1
    ELSE BCmpTop(a, b, i - 1)

\* -1, 0 or 1 as a is less than, equal to or greater than b
BCmp(a, b) ==
    IF Len(a) < Len(b) THEN -1
    ELSE IF Len(a) > Len(b) THEN 1
    ELSE BCmpTop(a, b, Len(a))

RECURSIVE BMulSmallC(_, _, _)
BMulSmallC(a, d, c) ==
    IF a = <<>>
    THEN IF c = 0 THEN <<>> ELSE <<c>>
    ELSE LET p == Head(a) * d + c
         IN <<p % Limb>> \o BMulSmallC(Tail(a), d, p \div Limb)

\* a * d for a digit d
BMulSmall(a, d) == IF d = 0 THEN <<>> ELSE BMulSmallC(a, d, 0)

RECURSIVE BMul(_, _)
BMul(a, b) ==
    IF a = <<>> \/ b = <<>> THEN <<>>
    ELSE LET r == BMul(a, Tail(b))
         IN BAdd(BMulSmall(a, Head(b)), IF r = <<>> THEN <<>> ELSE <<0>> \o r)

\* a * 2^n
BShl(a, n) ==
    IF a = <<>> THEN <<>>
    ELSE [i \in 1..(n \div LimbBits) |-> 0] \o BMulSmall(a, 2^(n % LimbBits))

\* a \div 2^n
BShr(a, n) ==
    LET r == n % LimbBits
        t == SubSeq(a, (n \div LimbBits) + 1, Len(a))
    IN BTrim([i \in 1..Len(t) |->
                 (t[i] \div 2^r)
                 + (IF i < Len(t) THEN (t[i + 1] % 2^r) * 2^(LimbBits - r) ELSE 0)])

BBitLen(a) ==
    IF a = <<>> THEN 0 ELSE LimbBits * (Len(a) - 1) + bit_length(a[Len(a)])

\* The digit r \div b for r < b * Limb, found bit by bit from bit i down:
\* d is the digit so far
RECURSIVE BDivDigit(_, _, _, _)
BDivDigit(r, b, i, d) ==
    IF i < 0 THEN d
    ELSE IF BCmp(BMulSmall(b, d + 2^i), r) <= 0
         THEN BDivDigit(r, b, i - 1, d + 2^i)
         ELSE BDivDigit(r, b, i - 1, d)

\* long division of the top i digits of a by b, q and r the quotient and
\* the remainder so far
RECURSIVE BDivStep(_, _, _, _, _)
BDivStep(a, b, i, q, r) ==
    IF i = 0 THEN [q |-> BTrim(q), r |-> r]
    ELSE LET r2 == BTrim(<<a[i]>> \o r)
             d == BDivDigit(r2, b, LimbBits - 1, 0)
         IN BDivStep(a, b, i - 1, <<d>> \o q, BSub(r2, BMulSmall(b, d)))

BDivMod(a, b) == BDivStep(a, b, Len(a), <<>>, <<>>)

\* The binary64 nearest to (-1)^s * (n + x) * 2^e, ties to the even one,
\* where 0 < x < 1 if sticky and x = 0 if not; n has 55 bits or more when
\* sticky.
FRound(s, n, e, sticky) ==
    IF n = <<>> THEN [s |-> s, m |-> <<>>, e |-> 0]
    ELSE LET width == BBitLen(n)
         IN IF width <= 53
            THEN [s |-> s, m |-> BShl(n, 53 - width), e |-> e - (53 - width)]
            ELSE LET shift == width - 53
                     q == BShr(n, shift)
                     rem == BSub(n, BShl(q, shift))
                     c == BCmp(rem, BShl(<<1>>, shift - 1))
                     up == c > 0 \/ (c = 0 /\ (sticky \/ q[1] % 2 = 1))
                     q1 == IF up THEN BAdd(q, <<1>>) ELSE q
                 IN IF BBitLen(q1) = 54
                    THEN [s |-> s, m |-> BShr(q1, 1), e |-> e + shift + 1]
                    ELSE [s |-> s, m |-> q1, e |-> e + shift]

\* float(n) of an int n
FFromInt(n) ==
    IF n < 0 THEN FRound(1, BFromInt(-n), 0, FALSE)
    ELSE FRound(0, BFromInt(n), 0, FALSE)

FNeg(a) == [a EXCEPT !.s = 1 - a.s]

FAbs(a) == [a EXCEPT !.s = 0]

FIsZero(a) == a.m = <<>>

\* a == b of two floats: the two zeros are equal
FEq(a, b) == (FIsZero(a) /\ FIsZero(b)) \/ a = b

FMul(a, b) == FRound((a.s + b.s) % 2, BMul(a.m, b.m), a.e + b.e, FALSE)

\* a / b for b # 0
FDiv(a, b) ==
    LET dm == BDivMod(BShl(a.m, 56), b.m)
    IN FRound((a.s + b.s) % 2, dm.q, a.e - 56 - b.e, dm.r # <<>>)

FAdd(a, b) ==
    IF FIsZero(a) THEN (IF FIsZero(b) /\ a.s # b.s THEN [b EXCEPT !.s = 0] ELSE b)
    ELSE IF FIsZero(b) THEN a
    ELSE LET e0 == IF a.e < b.e THEN a.e ELSE b.e
             x == BShl(a.m, a.e - e0)
             y == BShl(b.m, b.e - e0)
             c == BCmp(x, y)
         IN IF a.s = b.s THEN FRound(a.s, BAdd(x, y), e0, FALSE)
            ELSE IF c > 0 THEN FRound(a.s, BSub(x, y), e0, FALSE)
            ELSE IF c < 0 THEN FRound(b.s, BSub(y, x), e0, FALSE)
            ELSE [s |-> 0, m |-> <<>>, e |-> 0]

FSub(a, b) == FAdd(a, FNeg(b))

\* a > b
FGreater(a, b) == LET d == FSub(a, b) IN ~FIsZero(d) /\ d.s = 0

\* round(a) of Python: the nearest int, the even one of two equally near
FRoundToInt(a) ==
    IF FIsZero(a) THEN 0
    ELSE LET sgn == IF a.s = 1 THEN -1 ELSE 1
         IN IF a.e >= 0 THEN sgn * BToInt(BShl(a.m, a.e))
            ELSE LET shift == -a.e
                     q == BShr(a.m, shift)
                     rem == BSub(a.m, BShl(q, shift))
                     c == BCmp(rem, BShl(<<1>>, shift - 1))
                     n == BToInt(q)
                 IN sgn * (IF c > 0 \/ (c = 0 /\ n % 2 = 1) THEN n + 1 ELSE n)

z_domain == 255

\* Q8(): the fields as the dataclass gives them
Q8 == [scalar |-> FFromInt(0), alpha |-> FFromInt(0), bits |-> 0,
       residual |-> FFromInt(0)]

quantize_scalar_q8(value) ==
    LET r_max == FAbs(value)
        r_min == FNeg(r_max)
        r_domain == FSub(r_max, r_min)
        alpha == IF FGreater(r_domain, FFromInt(z_domain))
                 THEN FDiv(FFromInt(z_domain), r_domain)
                 ELSE FFromInt(1)
        base_step_size == FDiv(r_domain, FFromInt(z_domain))
        bits == FRoundToInt(FDiv(value, base_step_size))
    IN IF FIsZero(r_domain)
       THEN [Q8 EXCEPT !.scalar = FFromInt(1), !.alpha = FFromInt(1), !.bits = 0]
       ELSE [scalar |-> FMul(base_step_size, alpha),
             alpha |-> alpha,
             bits |-> bits,
             residual |-> FSub(value, FMul(FFromInt(bits), base_step_size))]

dequantize_scalar_q8(q8) ==
    FAdd(FMul(FFromInt(q8.bits), FDiv(q8.scalar, q8.alpha)), q8.residual)

\* The inputs are the floats of the ints of -MaxValue..MaxValue
MaxValue == 150

Q8Values == (0 - MaxValue)..MaxValue

InitQ8 ==
    /\ prog = "q8"
    /\ pc = 1
    /\ file = <<>>
    /\ pos = 0
    /\ err = "none"
    /\ general = GeneralModel(DefaultInfo)
    /\ hparams = ParametersModel(DefaultConfig)
    /\ processor = EmptyProcessor
    /\ general_data = NoGeneralData
    /\ hparams_data = NoParametersData
    /\ tokenizer_data = NoTokenizerData
    /\ sections = <<>>
    /\ reads = <<>>
    /\ padding_at = -1
    /\ padding_needed = 0
    /\ \E n \in Q8Values : calls = <<[fn |-> "value", int |-> n, value |-> FFromInt(n)]>>

\* q8 = quantize_scalar_q8(value)
QuantizeScalarQ8 ==
    /\ prog = "q8"
    /\ Len(calls) = 1
    /\ calls' = Append(calls, [fn |-> "quantize_scalar_q8",
                               value |-> quantize_scalar_q8(calls[1].value)])
    /\ pc' = pc + 1
    /\ UNCHANGED <<prog, file, pos, err, general, hparams, processor,
                   general_data, hparams_data, tokenizer_data, sections, reads,
                   padding_at, padding_needed>>

\* reconstructed = dequantize_scalar_q8(q8)
DequantizeScalarQ8 ==
    /\ prog = "q8"
    /\ Len(calls) = 2
    /\ calls' = Append(calls, [fn |-> "dequantize_scalar_q8",
                               value |-> dequantize_scalar_q8(calls[2].value)])
    /\ pc' = pc + 1
    /\ UNCHANGED <<prog, file, pos, err, general, hparams, processor,
                   general_data, hparams_data, tokenizer_data, sections, reads,
                   padding_at, padding_needed>>

NextQ8 == QuantizeScalarQ8 \/ DequantizeScalarQ8

SpecQ8 == InitQ8 /\ [][NextQ8]_vars

\* C25: dequantize_scalar_q8(quantize_scalar_q8(value)) is value itself,
\* for a value of zero and for an alpha below 1 as for every other value.
C25_ExactRoundTrip ==
    (prog = "q8" /\ Len(calls) = 3) => FEq(calls[3].value, calls[1].value)

\* C29: bits of quantize_scalar_q8(value) is of -128..127, and is 0 when
\* value is 0.
C29_BitsRange ==
    (prog = "q8" /\ Len(calls) >= 2)
    => /\ calls[2].value.bits \in -128..127
       /\ FIsZero(calls[1].value) => calls[2].value.bits = 0

===========================================================================
